---- MODULE Spec2Model ----
(***************************************************************************)
(* A model of the APEX bundle module of Soong (apex/apex.go): multilib     *)
(* dependency resolution (DepsMutator) and build-action generation         *)
(* (GenerateAndroidBuildActions, buildUnflattenedApex, buildFlattenedApex). *)
(***************************************************************************)
EXTENDS Integers, Sequences, FiniteSets, TLC

\* The absent value of an optional (a nil pointer, a nil Path).
NIL == "<nil>"

\* ---------------------------------------------------------------- bounds
\* At most this many (property list, name) declarations in a bundle.
MaxDeclared == 2

\* At most this many file-carrying direct dependencies of a bundle.
MaxDeps == 2

\* At most this many direct dependencies of the first of two bundles whose
\* apexDepsMutator runs are interleaved.
MaxDirect == 2

\* At most this many module-type registrations.
MaxRegistrations == 3

\* At most this many names in a `required` list of a java_library.
MaxRequired == 2

\* ------------------------------------------------------------ generic helpers
Range(s) == {s[i] : i \in 1..Len(s)}

\* All subsets of S with at most k elements.
RECURSIVE SubsetsUpTo(_, _)
SubsetsUpTo(S, k) ==
    IF k = 0 THEN {{}}
    ELSE LET prev == SubsetsUpTo(S, k - 1)
         IN prev \cup {T \cup {x} : T \in prev, x \in S}

\* All sequences over S without repetition (the orderings of the subsets of S).
RECURSIVE Arrangements(_)
Arrangements(S) ==
    {<<>>} \cup UNION {{<<x>> \o t : t \in Arrangements(S \ {x})} : x \in S}

\* ------------------------------------------------------------------ paths
\* A slash-separated path is the sequence of its components: "bin/sub" is
\* <<"bin", "sub">>, the empty string is <<>>, "." is <<".">>.
\*
\* filepath.Clean on the components: "." and empty components are dropped, a ".."
\* removes the component before it unless that is itself a "..", and a path
\* that cleans to nothing is ".".
RECURSIVE CleanInto(_, _)
CleanInto(acc, rest) ==
    IF rest = <<>> THEN acc
    ELSE LET c == Head(rest)
         IN  CASE c = "." \/ c = "" -> CleanInto(acc, Tail(rest))
               [] c = ".." /\ acc # <<>> /\ acc[Len(acc)] # ".." ->
                      CleanInto(SubSeq(acc, 1, Len(acc) - 1), Tail(rest))
               [] OTHER -> CleanInto(Append(acc, c), Tail(rest))

Clean(p) == LET r == CleanInto(<<>>, p) IN IF r = <<>> THEN <<".">> ELSE r

\* filepath.Join: empty elements are ignored and the result is cleaned; the join
\* of empty elements only is the empty string.
Join(a, b) == IF a = <<>> /\ b = <<>> THEN <<>> ELSE Clean(a \o b)

\* filepath.Base of a cleaned relative path: its last component.
Base(p) == IF p = <<>> THEN "." ELSE p[Len(p)]

\* filepath.Dir of a cleaned relative path: all but the last component.
Dir(p) == IF Len(p) <= 1 THEN <<".">> ELSE SubSeq(p, 1, Len(p) - 1)

\* dir, _ = filepath.Split(dir) followed by the removal of the trailing slash:
\* the path without its last component, "" when there is one component only.
SplitParent(p) == IF Len(p) <= 1 THEN <<>> ELSE SubSeq(p, 1, Len(p) - 1)

\* android.InList
InList(x, list) == \E i \in 1..Len(list) : list[i] = x

\* ======================================================================
\* Part 1: apexBundle.DepsMutator
\* ======================================================================
VARIABLES
    targets,      \* ctx.MultiTargets(): the ordered architecture targets
    properties,   \* a.properties after combineProperties
    depsPc,       \* "start" before DepsMutator has run, "done" after
    deps,         \* the dependency edges requested from the graph engine
    mutErrors     \* the errors DepsMutator reported

depsVars == <<targets, properties, depsPc, deps, mutErrors>>

\* The dependency tags.
sharedLibTag == "sharedLib"
executableTag == "executable"
javaLibTag == "javaLib"
prebuiltTag == "prebuilt"
keyTag == "key"
certificateTag == "certificate"

\* target.Arch.ArchType.Multilib of each architecture.
ArchMultilib ==
    [arm |-> "lib32", arm64 |-> "lib64", x86 |-> "lib32", x86_64 |-> "lib64"]

ArchNames == DOMAIN ArchMultilib

\* The target lists a package can have: the primary target first, no target twice.
TargetLists == Arrangements(ArchNames) \ {<<>>}

\* The names a property list can hold.
DepNames == {"m1"}

\* The multilib buckets, each with Native_shared_libs and Binaries.
Buckets == {"First", "Both", "Prefer32", "Lib32", "Lib64"}

\* Every name list of apexBundleProperties: the four plain lists and, per bucket,
\* Multilib.<bucket>.Native_shared_libs and Multilib.<bucket>.Binaries.
PlainLists == {<<"Native_shared_libs">>, <<"Binaries">>, <<"Java_libs">>, <<"Prebuilts">>}
BucketLists == {<<b, k>> : b \in Buckets, k \in {"Native_shared_libs", "Binaries"}}
PropertyLists == PlainLists \cup BucketLists

\* The content of property list l under the declarations decl.
ListOf(decl, l) == {p[2] : p \in {q \in decl : q[1] = l}}

\* A property set: the name lists, Key and Certificate.
PropertiesOf(decl, key, cert) ==
    [lists |-> [l \in PropertyLists |-> ListOf(decl, l)],
     Key |-> key,
     Certificate |-> cert]

\* A property string that may name a module: [colon |-> TRUE, name |-> "n"] is
\* ":n", [colon |-> FALSE, name |-> "n"] is "n" (name "" is the empty string).
Str(colon, name) == [colon |-> colon, name |-> name]

\* android.SrcIsModule: the module name of ":name", "" for anything else.
SrcIsModule(s) == IF s.colon /\ s.name # "" THEN s.name ELSE ""

\* One requested edge: the tag, the dependency's name and the arch variation
\* ("" when the edge is added without an arch variation).
Edge(tag, name, arch) == [tag |-> tag, name |-> name, arch |-> arch]

\* ctx.AddFarVariationDependencies(arch variation, tag, names...)
AddFarVariationDependencies(arch, tag, names) == {Edge(tag, n, arch) : n \in names}

addDependenciesForNativeModules(native_shared_libs, binaries, arch) ==
    AddFarVariationDependencies(arch, sharedLibTag, native_shared_libs)
    \cup AddFarVariationDependencies(arch, executableTag, binaries)

\* The first loop of DepsMutator.
Has32BitTarget(ts) == \E i \in 1..Len(ts) : ArchMultilib[ts[i]] = "lib32"

\* i == 0 in the source; sequences are 1-based here.
IsPrimaryAbiMutant(i) == TRUE
IsPrimaryAbi(i) == i = 1

\* Whether the lib64 case adds the Prefer32 bucket: !has32BitTarget.
\* The mutant decides it from the targets seen so far only.
Prefer32For64Mutant(ts, i) == ~Has32BitTarget(SubSeq(ts, 1, i))
Prefer32For64(ts, i) == ~Has32BitTarget(ts)

\* The bucket the switch on target.Arch.ArchType.Multilib selects.
MultilibCaseMutant(multilib) == IF multilib = "lib32" THEN "Lib64" ELSE "Lib32"
MultilibCase(multilib) == IF multilib = "lib32" THEN "Lib32" ELSE "Lib64"

\* The body of the second loop of DepsMutator for target i.
TargetDeps(p, ts, i) ==
    LET arch == ts[i]
        L(l) == p.lists[l]
        bucket(b) == addDependenciesForNativeModules(
                         L(<<b, "Native_shared_libs">>), L(<<b, "Binaries">>), arch)
    IN  AddFarVariationDependencies(arch, sharedLibTag, L(<<"Native_shared_libs">>))
        \cup bucket("Both")
        \cup (IF IsPrimaryAbi(i)
              THEN AddFarVariationDependencies(arch, executableTag, L(<<"Binaries">>))
                   \cup bucket("First")
                   \cup AddFarVariationDependencies(arch, prebuiltTag, L(<<"Prebuilts">>))
              ELSE {})
        \cup bucket(MultilibCase(ArchMultilib[arch]))
        \cup (IF ArchMultilib[arch] = "lib32" \/ Prefer32For64(ts, i)
              THEN bucket("Prefer32")
              ELSE {})

\* Everything DepsMutator requests: the per-target edges, the java libraries, and,
\* unless the key is missing, the key and the certificate module.
DepsMutatorEdges(p, ts) ==
    UNION {TargetDeps(p, ts, i) : i \in 1..Len(ts)}
    \cup AddFarVariationDependencies("android_common", javaLibTag, p.lists[<<"Java_libs">>])
    \cup (IF p.Key = "" THEN {}
          ELSE {Edge(keyTag, p.Key, "")}
               \cup (IF SrcIsModule(p.Certificate) # ""
                     THEN {Edge(certificateTag, SrcIsModule(p.Certificate), "")}
                     ELSE {}))

DepsMutatorErrors(p) == IF p.Key = "" THEN <<"key is missing">> ELSE <<>>

DepsInit ==
    /\ targets \in TargetLists
    /\ \E decl \in SubsetsUpTo(PropertyLists \X DepNames, MaxDeclared),
          key \in {"", "mykey"},
          cert \in {Str(FALSE, ""), Str(TRUE, "mycert"), Str(FALSE, "platform")} :
            properties = PropertiesOf(decl, key, cert)
    /\ depsPc = "start"
    /\ deps = {}
    /\ mutErrors = <<>>

DepsMutator ==
    /\ depsPc = "start"
    /\ deps' = DepsMutatorEdges(properties, targets)
    /\ mutErrors' = DepsMutatorErrors(properties)
    /\ depsPc' = "done"
    /\ UNCHANGED <<targets, properties>>

\* ======================================================================
\* Part 2: apexBundle.GenerateAndroidBuildActions
\* ======================================================================
VARIABLES
    cfg,        \* the bundle's properties and the build configuration it reads
    graph,      \* the resolved direct dependencies of the bundle, in walk order
    genPc,      \* "start" before GenerateAndroidBuildActions has run, "done" after,
                \* "mk" after AndroidMk
    a,          \* the apexBundle fields GenerateAndroidBuildActions assigns
    walk,       \* the closure variables of the WalkDeps callback after the walk
    errors,     \* ctx.PropertyErrorf / ctx.ModuleErrorf reports, in order
    builds,     \* ctx.Build calls, in order
    installs,   \* ctx.InstallFile calls, in order
    makeData    \* the Make modules AndroidMk writes, in order

genVars == <<cfg, graph, genPc, a, walk, errors, builds, installs, makeData>>

\* ctx.ModuleName() of the bundle.
ApexName == "myapex"

\* An android.Path: `rank` is the position of path.String() in the lexicographic
\* order of all path strings (so that a < b on strings is a.rank < b.rank and
\* equal paths have equal ranks), `base` is path.Base().  NoPath is the nil Path.
File(rank, base) == [rank |-> rank, base |-> base]
NoPath == File(0, "")

\* A module of the dependency graph with the attributes the bundle queries.
Module(kind, name, out) ==
    [kind |-> kind,                 \* the Go type: "cc", "sh", "java", "prebuilt",
                                    \* "apexKey", "cert" or "other"
     name |-> name,                 \* ctx.OtherModuleName / cc.Name()
     id |-> name,                   \* the module itself: its key in Modules (the
                                    \* variants of one module share its name)
     out |-> out,                   \* OutputFile() / DexJarFile()
     multilib |-> "lib64",          \* Arch().ArchType.Multilib
     archType |-> "arm64",          \* Arch().ArchType.String()
     native |-> TRUE,               \* Arch().Native
     relPath |-> <<>>,              \* RelativeInstallPath() / SubDir()
     symlinks |-> <<>>,             \* cc.Symlinks()
     isStubs |-> FALSE,             \* cc.IsStubs()
     hasStubsVariants |-> FALSE,    \* cc.HasStubsVariants()
     canHaveApexVariants |-> kind \in {"cc", "java"},  \* ApexModule.CanHaveApexVariants()
     installableToApex |-> kind \in {"cc", "java"},    \* ApexModule.IsInstallableToApex()
     keyInstallable |-> TRUE,       \* apexKey.installable()
     private_key_file |-> NoPath,   \* apexKey.private_key_file
     public_key_file |-> NoPath,    \* apexKey.public_key_file
     certPem |-> NoPath,            \* AndroidAppCertificate.Certificate.Pem
     certKey |-> NoPath,            \* AndroidAppCertificate.Certificate.Key
     deps |-> <<>>]                 \* the module's own dependencies, in order

\* The modules of the build tree.  The rank of an output follows the path
\* out/soong/.intermediates/<module>/<variant>/<file>; the bundle's own outputs
\* (module "myapex", ranks 500 to 509) sort between those of "libstub" and "mycert".
Modules ==
    [conf      |-> [Module("prebuilt", "conf", File(100, "conf.rc"))
                       EXCEPT !.relPath = <<"init">>],
     jar       |-> Module("java", "jar", File(200, "jar.jar")),
     jar_nodex |-> Module("java", "jar_nodex", NoPath),
     libbar    |-> Module("cc", "libbar", File(300, "libbar.so")),
     libc      |-> Module("cc", "libc", File(350, "libc.so")),
     libfoo    |-> [Module("cc", "libfoo", File(400, "libfoo.so"))
                       EXCEPT !.deps = <<"libbar", "libstub", "libstub_v1", "libhdr",
                                       "libstatic", "libc", "libm_nb">>],
     libhdr    |-> Module("other", "libhdr", NoPath),
     libimpl   |-> Module("cc", "libimpl", File(440, "libimpl.so")),
     libm_nb   |-> [Module("cc", "libm", File(450, "libm.so"))
                       EXCEPT !.id = "libm_nb", !.native = FALSE, !.archType = "arm",
                              !.multilib = "lib32", !.relPath = <<"hw">>],
     libstatic |-> [Module("cc", "libstatic", File(460, "libstatic.a"))
                       EXCEPT !.installableToApex = FALSE, !.deps = <<"libimpl">>],
     libstub   |-> [Module("cc", "libstub", File(480, "libstub.so"))
                       EXCEPT !.hasStubsVariants = TRUE, !.deps = <<"libimpl">>],
     libstub_v1 |-> [Module("cc", "libstub_v1", File(490, "libstub_v1.so"))
                       EXCEPT !.isStubs = TRUE, !.deps = <<"libimpl">>],
     mycert    |-> [Module("cert", "mycert", NoPath)
                       EXCEPT !.certPem = File(520, "mycert.x509.pem"),
                              !.certKey = File(510, "mycert.pk8")],
     mykey     |-> [Module("apexKey", "mykey", NoPath)
                       EXCEPT !.private_key_file = File(540, "mykey.pem"),
                              !.public_key_file = File(530, "mykey.avbpubkey")],
     mykey_ni  |-> [Module("apexKey", "mykey_ni", NoPath)
                       EXCEPT !.keyInstallable = FALSE,
                              !.private_key_file = File(560, "mykey_ni.pem"),
                              !.public_key_file = File(550, "mykey_ni.avbpubkey")],
     script    |-> [Module("sh", "script", File(600, "script.sh"))
                       EXCEPT !.relPath = <<"sub">>],
     script0   |-> Module("sh", "script0", File(620, "script0.sh")),
     script_up |-> [Module("sh", "script_up", File(630, "script_up.sh"))
                       EXCEPT !.relPath = <<"..", "..", "etc">>],
     tool      |-> [Module("cc", "tool", File(700, "tool"))
                       EXCEPT !.symlinks = <<"tool_link">>, !.deps = <<"libbar">>],
     tool32    |-> [Module("cc", "tool", File(710, "tool"))
                       EXCEPT !.id = "tool32", !.archType = "arm", !.multilib = "lib32"],
     tool_nb   |-> [Module("cc", "tool_nb", File(720, "tool_nb"))
                       EXCEPT !.native = FALSE, !.archType = "arm", !.multilib = "lib32",
                              !.deps = <<"libimpl">>]]

\* One edge of the graph: the dependency tag and the module it leads to.
Dep(tag, mod) == [tag |-> tag, mod |-> mod]

\* The bundle node of the graph.
Root == "<apex>"

\* The outgoing edges of a node, in the order the walk visits them.  The tag of
\* an edge below another module belongs to that module's own type and is never
\* one of the bundle's tags.
ChildrenOf(g, node) ==
    IF node = Root THEN g
    ELSE [i \in 1..Len(Modules[node].deps) |-> Dep("", Modules[node].deps[i])]

\* apexFileClass
etc == "etc"
nativeSharedLib == "nativeSharedLib"
nativeExecutable == "nativeExecutable"
shBinary == "shBinary"
javaSharedLib == "javaSharedLib"

\* An apexFile.  moduleName is a sequence of name parts joined by ".".
ApexFile(builtFile, moduleName, installDir, class, module, symlinks) ==
    [builtFile |-> builtFile, moduleName |-> moduleName, installDir |-> installDir,
     class |-> class, module |-> module, symlinks |-> symlinks]

getCopyManifestForNativeLibraryMutant(cc, handleSpecialLibs) ==
    LET d0 == CASE cc.multilib = "lib32" -> <<"lib">>
                [] cc.multilib = "lib64" -> <<"lib64">>
                [] OTHER -> <<>>
        d1 == Join(d0, cc.relPath)
        d2 == IF ~cc.native THEN Join(d1, <<cc.archType>>) ELSE d1
        d3 == IF cc.name \in {"libc", "libm", "libdl"}
              THEN Join(d2, <<"bionic">>)
              ELSE d2
    IN  [fileToCopy |-> cc.out, dirInApex |-> d3]
getCopyManifestForNativeLibrary(cc, handleSpecialLibs) ==
    LET d0 == CASE cc.multilib = "lib32" -> <<"lib">>
                [] cc.multilib = "lib64" -> <<"lib64">>
                [] OTHER -> <<>>
        d1 == Join(d0, cc.relPath)
        d2 == IF ~cc.native THEN Join(d1, <<cc.archType>>) ELSE d1
        d3 == IF handleSpecialLibs /\ cc.name \in {"libc", "libm", "libdl"}
              THEN Join(d2, <<"bionic">>)
              ELSE d2
    IN  [fileToCopy |-> cc.out, dirInApex |-> d3]

getCopyManifestForExecutable(cc) == [fileToCopy |-> cc.out, dirInApex |-> <<"bin">>]

getCopyManifestForShBinary(sh) ==
    [fileToCopy |-> sh.out, dirInApex |-> Join(<<"bin">>, sh.relPath)]

getCopyManifestForJavaLibrary(java) == [fileToCopy |-> java.out, dirInApex |-> <<"javalib">>]

getCopyManifestForPrebuiltEtc(prebuilt) ==
    [fileToCopy |-> prebuilt.out, dirInApex |-> Join(<<"etc">>, prebuilt.relPath)]

\* An error report: the property it is reported against ("" for ModuleErrorf)
\* and the dependency or value it names.
Err(property, what) == [property |-> property, what |-> what]

\* The closure variables of the walk callback, before the walk.  `visits` logs the
\* callback's invocations as <<child, parent>>; `visited` is the walk's own set of
\* modules it has descended into.
WalkInit ==
    [filesInfo |-> <<>>, keyFile |-> NoPath, pubKeyFile |-> NoPath,
     certificate |-> [Pem |-> NoPath, Key |-> NoPath],
     errors |-> <<>>, visits |-> <<>>, visited |-> {}]

\* A callback result: the closure variables and the returned "descend" flag.
Ret(st, descend) == [st |-> st, descend |-> descend]

AddFile(st, f) == [st EXCEPT !.filesInfo = Append(@, f)]
AddError(st, e) == [st EXCEPT !.errors = Append(@, e)]

\* A dependency of the wrong module kind for its tag: the error is reported, the
\* switch falls out to the final `return false`, and the walk goes on with the
\* next edge.  The mutant skips the dependency silently.
MismatchMutant(st, property, depName) == Ret(st, FALSE)
Mismatch(st, property, depName) == Ret(AddError(st, Err(property, depName)), FALSE)

\* The java_libs case for a java.Library child.
JavaLibCaseMutant(st, child, depName) ==
    LET m == getCopyManifestForJavaLibrary(child)
    IN  Ret(AddFile(IF m.fileToCopy = NoPath
                    THEN AddError(st, Err("java_libs", depName)) ELSE st,
                    ApexFile(m.fileToCopy, <<depName>>, m.dirInApex, javaSharedLib,
                             child.id, <<>>)),
            TRUE)
JavaLibCase(st, child, depName) ==
    LET m == getCopyManifestForJavaLibrary(child)
    IN  IF m.fileToCopy = NoPath
        THEN Ret(AddError(st, Err("java_libs", depName)), TRUE)
        ELSE Ret(AddFile(st, ApexFile(m.fileToCopy, <<depName>>, m.dirInApex,
                                      javaSharedLib, child.id, <<>>)),
                 TRUE)

\* if !key.installable() && ctx.Config().Debuggable(): the key's public key is
\* bundled with the package.
BundlesPubKeyMutant(key, c) == ~key.keyInstallable
BundlesPubKey(key, c) == ~key.keyInstallable /\ c.Debuggable

\* filesInfo = append(filesInfo, apexFile{fileToCopy, depName, dirInApex, class,
\* module, symlinks}) for the manifest m a getCopyManifestFor* function returned.
AppendApexFile(st, m, depName, class, module, symlinks) ==
    AddFile(st, ApexFile(m.fileToCopy, <<depName>>, m.dirInApex, class, module, symlinks))

\* if !cc.Arch().Native: a native-bridge'd binary is not copied.
NotNativeMutant(cc) == FALSE
NotNative(cc) == ~cc.native

\* The callback on a direct dependency (the parent is the bundle).
VisitDirect(st, depTag, child, c) ==
    CASE depTag = sharedLibTag ->
           IF child.kind = "cc"
           THEN Ret(AppendApexFile(st,
                        getCopyManifestForNativeLibrary(child, c.handleSpecialLibs),
                        child.name, nativeSharedLib, child.id, <<>>),
                    TRUE)
           ELSE Mismatch(st, "native_shared_libs", child.name)
      [] depTag = executableTag ->
           IF child.kind = "cc"
           THEN IF NotNative(child)
                THEN Ret(st, TRUE)
                ELSE Ret(AppendApexFile(st, getCopyManifestForExecutable(child),
                             child.name, nativeExecutable, child.id, child.symlinks),
                         TRUE)
           ELSE IF child.kind = "sh"
           THEN Ret(AppendApexFile(st, getCopyManifestForShBinary(child),
                        child.name, shBinary, child.id, <<>>),
                    FALSE)
           ELSE Mismatch(st, "binaries", child.name)
      [] depTag = javaLibTag ->
           IF child.kind = "java"
           THEN JavaLibCase(st, child, child.name)
           ELSE Mismatch(st, "java_libs", child.name)
      [] depTag = prebuiltTag ->
           IF child.kind = "prebuilt"
           THEN Ret(AppendApexFile(st, getCopyManifestForPrebuiltEtc(child),
                        child.name, etc, child.id, <<>>),
                    TRUE)
           ELSE Mismatch(st, "prebuilts", child.name)
      [] depTag = keyTag ->
           IF child.kind = "apexKey"
           THEN Ret([st EXCEPT !.keyFile = child.private_key_file,
                               !.pubKeyFile =
                                   IF BundlesPubKey(child, c)
                                   THEN child.public_key_file ELSE @],
                    FALSE)
           ELSE Mismatch(st, "key", child.name)
      [] depTag = certificateTag ->
           IF child.kind = "cert"
           THEN Ret([st EXCEPT !.certificate =
                                   [Pem |-> child.certPem, Key |-> child.certKey]],
                    FALSE)
           ELSE Mismatch(st, "", child.name)
      [] OTHER -> Ret(st, FALSE)

\* The callback on an indirect dependency (the parent is not the bundle).
VisitIndirectMutant(st, child, c) ==
    IF child.canHaveApexVariants /\ child.installableToApex /\ child.kind = "cc"
    THEN Ret(AppendApexFile(st,
                 getCopyManifestForNativeLibrary(child, c.handleSpecialLibs),
                 child.name, nativeSharedLib, child.id, <<>>),
             TRUE)
    ELSE Ret(st, FALSE)
VisitIndirect(st, child, c) ==
    IF child.canHaveApexVariants /\ child.installableToApex /\ child.kind = "cc"
    THEN IF child.isStubs \/ child.hasStubsVariants
         THEN Ret(st, FALSE)
         ELSE Ret(AppendApexFile(st,
                      getCopyManifestForNativeLibrary(child, c.handleSpecialLibs),
                      child.name, nativeSharedLib, child.id, <<>>),
                  TRUE)
    ELSE Ret(st, FALSE)

\* The callback passed to ctx.WalkDeps, on the edge e out of `parent`.
Logged(st, e, parent) == [st EXCEPT !.visits = Append(@, <<e.mod, parent>>)]

VisitModule(st, depTag, child, parent, c) ==
    IF parent = Root
    THEN VisitDirect(st, depTag, child, c)
    ELSE VisitIndirect(st, child, c)

Visit(st, e, parent, c) == VisitModule(Logged(st, e, parent), e.tag, Modules[e.mod], parent, c)

\* ctx.WalkDeps: depth first over the outgoing edges of `parent` from edge i on.
\* The callback is called for every edge; the walk descends into the child when
\* the callback returns true (r.descend) and the child has not been descended
\* into before.
RECURSIVE WalkDeps(_, _, _, _, _)
RECURSIVE WalkEdges(_, _, _, _, _, _)
Descend(r, g, mod, c) ==
    IF r.descend /\ mod \notin r.st.visited
    THEN [WalkDeps(r.st, g, mod, 1, c) EXCEPT !.visited = @ \cup {mod}]
    ELSE r.st

WalkEdges(st, g, es, parent, i, c) ==
    IF i > Len(es) THEN st
    ELSE WalkEdges(Descend(Visit(st, es[i], parent, c), g, es[i].mod, c),
                   g, es, parent, i + 1, c)

WalkDeps(st, g, parent, i, c) == WalkEdges(st, g, ChildrenOf(g, parent), parent, i, c)

\* removeDup: the first entry of every builtFile is kept.
RECURSIVE removeDupFrom(_, _, _)
removeDupFrom(filesInfo, i, result) ==
    IF i > Len(filesInfo) THEN result
    ELSE removeDupFrom(filesInfo, i + 1,
             IF \E j \in 1..Len(result) : result[j].builtFile = filesInfo[i].builtFile
             THEN result
             ELSE Append(result, filesInfo[i]))

removeDup(filesInfo) == removeDupFrom(filesInfo, 1, <<>>)

\* sort.Slice by builtFile.String(): insertion of each entry before the first
\* entry that is greater.  (The keys are distinct after removeDup, so the result
\* does not depend on the sorting algorithm.)
InsertByBuiltFile(sorted, f) ==
    LET k == Cardinality({j \in 1..Len(sorted) : ~(f.builtFile.rank < sorted[j].builtFile.rank)})
    IN  SubSeq(sorted, 1, k) \o <<f>> \o SubSeq(sorted, k + 1, Len(sorted))

RECURSIVE SortFrom(_, _, _)
SortFrom(filesInfo, i, sorted) ==
    IF i > Len(filesInfo) THEN sorted
    ELSE SortFrom(filesInfo, i + 1, InsertByBuiltFile(sorted, filesInfo[i]))

SortByBuiltFileMutant(filesInfo) == filesInfo
SortByBuiltFile(filesInfo) == SortFrom(filesInfo, 1, <<>>)

\* filesInfo[i].moduleName = ctx.ModuleName() + "." + filesInfo[i].moduleName
PrefixModuleNames(filesInfo) ==
    [i \in 1..Len(filesInfo) |->
        [filesInfo[i] EXCEPT !.moduleName = <<ApexName>> \o @]]

\* apexPackaging
imageApex == "imageApex"
zipApex == "zipApex"
both == "both"

image(t) == t \in {imageApex, both}
zip(t) == t \in {zipApex, both}

imageApexSuffix == ".apex"
zipApexSuffix == ".zipapex"
imageApexType == "image"
zipApexType == "zip"

\* apexPackaging.suffix() and name(); "<panic>" stands for the panic of the
\* `both` and default cases.
suffix(t) ==
    CASE t = imageApex -> imageApexSuffix
      [] t = zipApex -> zipApexSuffix
      [] OTHER -> "<panic>"

name(t) ==
    CASE t = imageApex -> imageApexType
      [] t = zipApex -> zipApexType
      [] OTHER -> "<panic>"

\* a.installable(): Installable == nil || *Installable
installable(c) == c.Installable \in {"nil", "true"}

\* The files of the bundle's own output directory (android.PathForModuleOut),
\* ranked between the outputs of "libstub" and of "mycert".
copiedManifest == File(500, "apex_manifest.json")
cannedFsConfig == File(501, "canned_fs_config")

SignedOutput(sfx) ==
    CASE sfx = imageApexSuffix -> File(502, "myapex.apex")
      [] sfx = zipApexSuffix -> File(506, "myapex.zipapex")
      [] OTHER -> File(509, "myapex<panic>")

BundleModuleFile(sfx) ==
    CASE sfx = imageApexSuffix -> File(503, "myapex.apex-base.zip")
      [] sfx = zipApexSuffix -> File(508, "myapex.zipapex-base.zip")
      [] OTHER -> File(509, "myapex<panic>-base.zip")

UnsignedOutput(sfx) ==
    CASE sfx = imageApexSuffix -> File(504, "myapex.apex.unsigned")
      [] sfx = zipApexSuffix -> File(507, "myapex.zipapex.unsigned")
      [] OTHER -> File(509, "myapex<panic>.unsigned")

ApexProtoFile(sfx) ==
    CASE sfx = imageApexSuffix -> File(505, "myapex.pb.apex")
      [] sfx = zipApexSuffix -> File(505, "myapex.pb.zipapex")
      [] OTHER -> File(505, "myapex.pb<panic>")

\* Source files: the manifest (android.PathForModuleSrc), the file_contexts file
\* and the certificate files of the default certificate directory.
ManifestSrc(c) ==
    IF c.Manifest = "nil" THEN File(900, "apex_manifest.json") ELSE File(901, c.Manifest)

FileContextsSrc(fcName) == File(950, fcName)

DefaultAppCertificate == [Pem |-> File(6, "testkey.x509.pem"), Key |-> File(5, "testkey.pk8")]
DefaultDirCertificate(cert) == [Pem |-> File(4, cert), Key |-> File(3, cert)]

\* The lexicographic order of the path components that occur in package paths.
\* No component is a proper prefix of another one followed by a character below
\* "/", so comparing paths component by component orders them as strings.
NameOrder ==
    <<".", "..", "arm", "bin", "bionic", "conf.rc", "etc", "hw", "init", "jar.jar",
      "javalib", "lib", "lib64", "libbar.so", "libc.so", "libfoo.so", "libimpl.so",
      "libm.so", "libstatic.a", "libstub.so", "libstub_v1.so", "script.sh",
      "script0.sh", "script_up.sh", "sub", "tool", "tool_link", "tool_nb">>

NameRank(n) == CHOOSE i \in 1..Len(NameOrder) : NameOrder[i] = n

RECURSIVE PathLess(_, _)
PathLess(p, q) ==
    IF p = <<>> THEN q # <<>>
    ELSE IF q = <<>> THEN FALSE
    ELSE IF Head(p) = Head(q) THEN PathLess(Tail(p), Tail(q))
    ELSE NameRank(Head(p)) < NameRank(Head(q))

\* sort.Strings on a list of paths.
RECURSIVE SortStrings(_)
SortStrings(list) ==
    IF list = <<>> THEN <<>>
    ELSE LET rest == SortStrings(Tail(list))
             k == Cardinality({j \in 1..Len(rest) : ~PathLess(Head(list), rest[j])})
         IN  SubSeq(rest, 1, k) \o <<Head(list)>> \o SubSeq(rest, k + 1, Len(rest))

\* android.PathForModuleOut(ctx, "image"+suffix): the staging directory.
StageDir(sfx) ==
    CASE sfx = imageApexSuffix -> "image.apex"
      [] sfx = zipApexSuffix -> "image.zipapex"
      [] OTHER -> "image<panic>"

\* The copy commands of buildUnflattenedApex for the staging directory
\* "image"+suffix: per file a mkdir, a cp and one ln per symlink.
SymlinkTargetMutant(dest) == dest
SymlinkTarget(dest) == <<Base(dest)>>

FileCopyCommands(f, sfx) ==
    LET dest == Join(f.installDir, <<f.builtFile.base>>)
        dest_path == Join(<<StageDir(sfx)>>, dest)
    IN  <<[op |-> "mkdir", src |-> NoPath, target |-> <<>>, path |-> Dir(dest_path)],
          [op |-> "cp", src |-> f.builtFile, target |-> <<>>, path |-> dest_path]>>
        \o [k \in 1..Len(f.symlinks) |->
               [op |-> "ln", src |-> NoPath, target |-> SymlinkTarget(dest),
                path |-> Join(Dir(dest_path), <<f.symlinks[k]>>)]]

RECURSIVE CopyCommands(_, _, _)
CopyCommands(filesInfo, i, sfx) ==
    IF i > Len(filesInfo) THEN <<>>
    ELSE FileCopyCommands(filesInfo[i], sfx) \o CopyCommands(filesInfo, i + 1, sfx)

\* The loop that adds the directories of a file to executablePaths:
\* for !InList(dir, executablePaths) && dir != "" { append; move up to the parent }
RECURSIVE AddDirs(_, _)
AddDirs(executablePaths, dir) ==
    IF InList(dir, executablePaths) \/ dir = <<>> THEN executablePaths
    ELSE AddDirs(Append(executablePaths, dir), SplitParent(dir))

\* Whether a file is listed as executable: f.installDir == "bin".
IsExecutableDir(installDir) == installDir = <<"bin">>

\* The loop over a.filesInfo that fills readOnlyPaths and executablePaths.
RECURSIVE FsConfigPaths(_, _, _)
FsConfigPaths(filesInfo, i, acc) ==
    IF i > Len(filesInfo) THEN acc
    ELSE LET f == filesInfo[i]
             pathInApex == Join(f.installDir, <<f.builtFile.base>>)
             withFile ==
                 IF IsExecutableDir(f.installDir)
                 THEN [acc EXCEPT !.exec =
                          Append(@, pathInApex)
                          \o [k \in 1..Len(f.symlinks) |-> Join(<<"bin">>, <<f.symlinks[k]>>)]]
                 ELSE [acc EXCEPT !.ro = Append(@, pathInApex)]
         IN  FsConfigPaths(filesInfo, i + 1,
                 [withFile EXCEPT !.exec = AddDirs(@, f.installDir)])

\* android.FirstUniqueStrings
RECURSIVE FirstUniqueStrings(_)
FirstUniqueStrings(list) ==
    IF list = <<>> THEN <<>>
    ELSE LET init == FirstUniqueStrings(SubSeq(list, 1, Len(list) - 1))
             last == list[Len(list)]
         IN  IF InList(last, init) THEN init ELSE Append(init, last)

\* A ctx.Build call.
Build(rule, output, input, implicits, args) ==
    [rule |-> rule, output |-> output, input |-> input, implicits |-> implicits,
     args |-> args]

\* A ctx.InstallFile call.
Install(dir, file_name, file) == [dir |-> dir, name |-> file_name, file |-> file]

\* proptools.StringDefault(a.properties.File_contexts, ctx.ModuleName())
FcName(c) == IF c.File_contexts = "nil" THEN ApexName ELSE c.File_contexts

\* !android.ExistentPathForSource(ctx, fileContextsPath).Valid()
FileContextsMissing(c, fcName) == fcName \notin c.ExistingFileContexts

\* The certificate buildUnflattenedApex signs with: the pair of the named file in
\* the default certificate directory, the default pair when no certificate is
\* named, else the certificate of the module found by the walk.
ResolveCertificateMutant(cert, w) == w.certificate
ResolveCertificate(cert, w) ==
    IF cert.name # "" /\ SrcIsModule(cert) = "" THEN DefaultDirCertificate(cert.name)
    ELSE IF cert.name = "" THEN DefaultAppCertificate
    ELSE w.certificate

\* if a.installable() && !ctx.Config().FlattenApex(): the signed archive is
\* installed.
InstallsArchiveMutant(c) == installable(c)
InstallsArchive(c) == installable(c) /\ ~c.FlattenApex

\* buildUnflattenedApex(ctx, keyFile, pubKeyFile, certificate, apexType)
buildUnflattenedApex(s, c, w, apexType) ==
    LET certificate == ResolveCertificate(c.Certificate, w)
        manifest == ManifestSrc(c)
        abis == FirstUniqueStrings(c.abis)
        sfx == suffix(apexType)
        unsignedOutputFile == UnsignedOutput(sfx)
        filesToCopy == [i \in 1..Len(s.a.filesInfo) |-> s.a.filesInfo[i].builtFile]
        copyCommands == CopyCommands(s.a.filesInfo, 1, sfx)
        implicitInputs == Append(filesToCopy, manifest)
        paths == FsConfigPaths(s.a.filesInfo, 1, [ro |-> <<>>, exec |-> <<>>])
        fsConfigBuild ==
            Build("generateFsConfig", cannedFsConfig, NoPath, <<>>,
                  [ro_paths |-> SortStrings(paths.ro),
                   exec_paths |-> SortStrings(paths.exec)])
        fcName == FcName(c)
        fileContexts == FileContextsSrc(fcName)
        optFlags ==
            (IF w.pubKeyFile # NoPath THEN <<<<"--pubkey", w.pubKeyFile.base>>>> ELSE <<>>)
            \o (IF c.OverrideManifestPackageName # "nil"
                THEN <<<<"--override_apk_package_name", c.OverrideManifestPackageName>>>>
                ELSE <<>>)
        imageBuilds ==
            <<fsConfigBuild,
              Build("apexRule", unsignedOutputFile, NoPath,
                    implicitInputs \o <<cannedFsConfig, fileContexts, w.keyFile>>
                    \o (IF w.pubKeyFile # NoPath THEN <<w.pubKeyFile>> ELSE <<>>),
                    [image_dir |-> StageDir(sfx), copy_commands |-> copyCommands,
                     manifest |-> manifest, file_contexts |-> fileContexts,
                     canned_fs_config |-> cannedFsConfig, key |-> w.keyFile,
                     opt_flags |-> optFlags, description |-> name(apexType)]),
              Build("apexProtoConvertRule", ApexProtoFile(sfx), unsignedOutputFile,
                    <<>>, <<>>),
              Build("apexBundleRule", BundleModuleFile(sfx), ApexProtoFile(sfx), <<>>,
                    [abi |-> abis])>>
        zipBuilds ==
            <<Build("zipApexRule", unsignedOutputFile, NoPath, implicitInputs,
                    [image_dir |-> StageDir(sfx), copy_commands |-> copyCommands,
                     manifest |-> manifest, description |-> name(apexType)])>>
        signed == SignedOutput(sfx)
        signBuild ==
            Build("Signapk", signed, unsignedOutputFile, <<>>,
                  [certificates |-> <<certificate.Pem, certificate.Key>>,
                   flags |-> "-a 4096"])
        built == IF image(apexType) THEN imageBuilds ELSE zipBuilds
    IN  IF image(apexType) /\ FileContextsMissing(c, fcName)
        THEN \* the fs config rule is emitted, then the error returns from this function
             [s EXCEPT !.builds = Append(@, fsConfigBuild),
                       !.errors = Append(@, Err("", "file_contexts"))]
        ELSE [s EXCEPT
                 !.builds = @ \o built \o <<signBuild>>,
                 !.a.bundleModuleFile =
                     IF image(apexType) THEN BundleModuleFile(sfx) ELSE @,
                 !.a.outputFiles = (apexType :> signed) @@ @,
                 !.installs =
                     IF InstallsArchive(c)
                     THEN Append(@, Install(<<"apex">>, signed.base, signed))
                     ELSE @]

\* buildFlattenedApex(ctx)
FlattenedInstalls(filesInfo) ==
    [i \in 1..Len(filesInfo) |->
        Install(Join(Join(<<"apex">>, <<ApexName>>), filesInfo[i].installDir),
                filesInfo[i].builtFile.base, filesInfo[i].builtFile)]

buildFlattenedApex(s, c) ==
    IF installable(c)
    THEN LET withManifest ==
                 Append(s.a.filesInfo,
                        ApexFile(copiedManifest, <<ApexName, "apex_manifest.json">>,
                                 <<".">>, etc, NIL, <<>>))
         IN  [s EXCEPT
                 !.builds = Append(@, Build("Cp", copiedManifest, ManifestSrc(c), <<>>, <<>>)),
                 !.a.filesInfo = withManifest,
                 !.installs = IF c.FlattenApex THEN @ \o FlattenedInstalls(withManifest)
                              ELSE @]
    ELSE s

\* keyFile == nil after the walk.
KeyMissingMutant(w) == FALSE
KeyMissing(w) == w.keyFile = NoPath

\* The value of a.apexTypes for a Payload_type, "<invalid>" for an unknown one.
ApexTypesOfMutant(payload_type) == IF payload_type = "zip" THEN zipApex ELSE imageApex
ApexTypesOf(payload_type) ==
    CASE payload_type \in {"nil", "image"} -> imageApex
      [] payload_type = "zip" -> zipApex
      [] payload_type = "both" -> both
      [] OTHER -> "<invalid>"

\* The fields of a new apexBundle (ApexBundleFactory).
NewApexBundle ==
    [apexTypes |-> imageApex, filesInfo |-> <<>>, flattened |-> FALSE,
     installDir |-> <<>>, outputFiles |-> <<>>, bundleModuleFile |-> NoPath]

\* The context of the walk callback: handleSpecialLibs and the configuration.
WalkContext(c) ==
    [handleSpecialLibs |-> ~(c.Ignore_system_library_special_case = "true"),
     Debuggable |-> c.Debuggable]

\* The file list after the walk: removeDup, sort, module name prefix.
Normalize(filesInfo) == PrefixModuleNames(SortByBuiltFile(removeDup(filesInfo)))

\* The state after the walk: a.apexTypes, the reported errors, a.flattened.
Walked(s, c, t, w) ==
    [s EXCEPT !.a.apexTypes = t,
              !.walk = w,
              !.errors = @ \o w.errors,
              !.a.flattened = c.FlattenApex /\ ~c.UnbundledBuild]

\* a.installDir and a.filesInfo are assigned.
Collect(s, w) ==
    [s EXCEPT !.a.installDir = <<"apex">>,
              !.a.filesInfo = Normalize(w.filesInfo)]

\* if a.apexTypes.zip() { buildUnflattenedApex(..., zipApex) }
BuildZipMutant(s, c, t, w) ==
    IF zip(t) THEN buildUnflattenedApex(s, c, w, t) ELSE s
BuildZip(s, c, t, w) ==
    IF zip(t) THEN buildUnflattenedApex(s, c, w, zipApex) ELSE s

\* if a.apexTypes.image() { buildUnflattenedApex(..., imageApex); buildFlattenedApex() }
BuildImageMutant(s, c, t, w) ==
    IF image(t) THEN buildUnflattenedApex(s, c, w, imageApex) ELSE s
BuildImage(s, c, t, w) ==
    IF image(t) THEN buildFlattenedApex(buildUnflattenedApex(s, c, w, imageApex), c)
    ELSE s

\* From the key check on.
AfterWalk(s, c, t, w) ==
    IF KeyMissing(w)
    THEN [s EXCEPT !.errors = Append(@, Err("key", c.Key))]
    ELSE BuildImage(BuildZip(Collect(s, w), c, t, w), c, t, w)

WalkAndBuild(s, c, t, w) == AfterWalk(Walked(s, c, t, w), c, t, w)

\* GenerateAndroidBuildActions as a function of the bundle s.a, the configuration
\* and the graph: the bundle, errors, builds, installs and walk variables after it.
GenerateResult(s, c, g) ==
    IF ApexTypesOf(c.Payload_type) = "<invalid>"
    THEN [s EXCEPT !.errors = Append(@, Err("type", c.Payload_type))]
    ELSE WalkAndBuild(s, c, ApexTypesOf(c.Payload_type),
                      WalkDeps(WalkInit, g, Root, 1, WalkContext(c)))

\* The direct dependencies that carry files: every tag with modules of the kinds
\* it accepts and with one module of another kind.
FileDepChoices ==
    {Dep(sharedLibTag, m) : m \in {"libfoo", "libbar", "script0"}}
    \cup {Dep(executableTag, m) : m \in {"tool", "tool32", "tool_nb", "script", "script0",
                                           "script_up", "conf"}}
    \cup {Dep(javaLibTag, m) : m \in {"jar", "jar_nodex", "libbar"}}
    \cup {Dep(prebuiltTag, m) : m \in {"conf", "jar"}}

\* All sequences over S of length at most n.
RECURSIVE SeqsUpTo(_, _)
SeqsUpTo(S, n) ==
    IF n = 0 THEN {<<>>}
    ELSE LET shorter == SeqsUpTo(S, n - 1)
         IN  shorter \cup {Append(q, x) : q \in {r \in shorter : Len(r) = n - 1}, x \in S}

\* The direct edges of a bundle in the order DepsMutator requests them: the file
\* dependencies, then the key (unless Key is empty), then the certificate module.
GraphOf(fileDeps, key, cert) ==
    fileDeps
    \o (IF key = "" THEN <<>>
        ELSE <<Dep(keyTag, key)>>
             \o (IF SrcIsModule(cert) # "" THEN <<Dep(certificateTag, SrcIsModule(cert))>>
                 ELSE <<>>))

\* Every configuration: the bundle's properties and the build configuration.
Configs ==
    [Payload_type : {"nil", "image", "zip", "both", "bogus"},
     Installable : {"nil", "true", "false"},
     File_contexts : {"nil", "other"},
     Manifest : {"nil"},
     Certificate : {Str(FALSE, ""), Str(TRUE, "mycert"), Str(TRUE, "mykey"),
                    Str(FALSE, "platform")},
     Key : {"", "mykey", "mykey_ni", "mycert"},
     Ignore_system_library_special_case : {"nil", "true"},
     Debuggable : BOOLEAN,
     FlattenApex : BOOLEAN,
     UnbundledBuild : BOOLEAN,
     ExistingFileContexts : {{}, {ApexName}, {"other"}},
     OverrideManifestPackageName : {"nil"},
     abis : {<<"arm64-v8a", "armeabi-v7a">>}]

\* A bundle that declares only its key, in a debuggable bundled build whose source
\* tree holds the bundle's file_contexts.
DefaultConfig ==
    [Payload_type |-> "nil", Installable |-> "nil", File_contexts |-> "nil",
     Manifest |-> "nil", Certificate |-> Str(FALSE, ""), Key |-> "mykey_ni",
     Ignore_system_library_special_case |-> "nil", Debuggable |-> TRUE,
     FlattenApex |-> FALSE, UnbundledBuild |-> FALSE,
     ExistingFileContexts |-> {ApexName}, OverrideManifestPackageName |-> "nil",
     abis |-> <<"arm64-v8a", "armeabi-v7a">>]

\* The configurations under which every dependency list is explored.
BasicConfigs ==
    {[DefaultConfig EXCEPT !.Payload_type = p, !.FlattenApex = f] :
        p \in {"nil", "both"}, f \in BOOLEAN}

\* The dependency lists under which every configuration is explored.
SampleDeps ==
    {<<>>,
     <<Dep(executableTag, "tool"), Dep(sharedLibTag, "libfoo")>>,
     <<Dep(javaLibTag, "jar_nodex"), Dep(executableTag, "script")>>}

GenInit ==
    /\ \/ /\ cfg \in BasicConfigs
          /\ \E fileDeps \in SeqsUpTo(FileDepChoices, MaxDeps) :
                graph = GraphOf(fileDeps, cfg.Key, cfg.Certificate)
       \/ /\ cfg \in Configs
          /\ \E fileDeps \in SampleDeps :
                graph = GraphOf(fileDeps, cfg.Key, cfg.Certificate)
    /\ genPc = "start"
    /\ a = NewApexBundle
    /\ walk = WalkInit
    /\ errors = <<>>
    /\ builds = <<>>
    /\ installs = <<>>
    /\ makeData = <<>>

\* GenerateAndroidBuildActions(ctx)
GenerateAndroidBuildActions ==
    /\ genPc = "start"
    /\ \E r \in {GenerateResult([a |-> a, walk |-> walk, errors |-> errors,
                                 builds |-> builds, installs |-> installs], cfg, graph)} :
           /\ a' = r.a
           /\ walk' = r.walk
           /\ errors' = r.errors
           /\ builds' = r.builds
           /\ installs' = r.installs
    /\ genPc' = "done"
    /\ UNCHANGED <<cfg, graph, makeData>>

\* apexFileClass.NameInMake()
NameInMake(class) ==
    CASE class = etc -> "ETC"
      [] class = nativeSharedLib -> "SHARED_LIBRARIES"
      [] class \in {nativeExecutable, shBinary} -> "EXECUTABLES"
      [] class = javaSharedLib -> "JAVA_LIBRARIES"
      [] OTHER -> "<panic>"

\* One Make module: the variables written between CLEAR_VARS and the include.
MakeModule(module, path, file, class, stem, required, uninstallable, bundle, include) ==
    [LOCAL_MODULE |-> module, LOCAL_MODULE_PATH |-> path,
     LOCAL_PREBUILT_MODULE_FILE |-> file, LOCAL_MODULE_CLASS |-> class,
     LOCAL_MODULE_STEM |-> stem, LOCAL_REQUIRED_MODULES |-> required,
     LOCAL_UNINSTALLABLE_MODULE |-> uninstallable, BUNDLE |-> bundle,
     include |-> include]

\* androidMkForFiles: the Make module of one file of the bundle.  The file's
\* base name loses its ".jar" for a java library.  The target architecture and
\* the jars and unstripped binary of the module are not written here.
MakeModuleOfFile(b, fi) ==
    MakeModule(fi.moduleName,
               IF b.flattened
               THEN Join(Join(<<"$(OUT_DIR)">> \o b.installDir, <<ApexName>>), fi.installDir)
               ELSE Join(<<"$(PRODUCT_OUT)", "apex", ApexName>>, fi.installDir),
               fi.builtFile, NameInMake(fi.class),
               IF fi.class = javaSharedLib /\ fi.builtFile.base = "jar.jar"
               THEN <<"jar">> ELSE <<fi.builtFile.base>>,
               <<>>, "", NoPath,
               CASE fi.class = javaSharedLib -> "soong_java_prebuilt.mk"
                 [] fi.class \in {nativeSharedLib, nativeExecutable} -> "soong_cc_prebuilt.mk"
                 [] OTHER -> "BUILD_PREBUILT")

androidMkForFiles(b) == [i \in 1..Len(b.filesInfo) |-> MakeModuleOfFile(b, b.filesInfo[i])]

\* The moduleNames androidMkForFiles returns, none when the bundle is not
\* installable.
MakeModuleNames(b, c) ==
    IF installable(c)
    THEN FirstUniqueStrings([i \in 1..Len(b.filesInfo) |-> b.filesInfo[i].moduleName])
    ELSE <<>>

\* androidMkForType(apexType): the Make modules of the files, then the phony
\* package of a flattened image or the prebuilt of the signed archive.
androidMkForType(b, c, apexType) ==
    (IF installable(c) THEN androidMkForFiles(b) ELSE <<>>)
    \o IF b.flattened /\ image(apexType)
       THEN <<MakeModule(<<ApexName>>, <<>>, NoPath, "", <<>>, MakeModuleNames(b, c),
                         "", NoPath, "BUILD_PHONY_PACKAGE")>>
       ELSE <<MakeModule(
                 IF apexType = zipApex /\ b.apexTypes = both
                 THEN <<ApexName, ".zip">> ELSE <<ApexName>>,
                 <<"$(OUT_DIR)">> \o b.installDir,
                 b.outputFiles[apexType], "ETC",
                 (IF apexType = zipApex /\ b.apexTypes = both
                  THEN <<ApexName, ".zip">> ELSE <<ApexName>>) \o <<suffix(apexType)>>,
                 <<<<c.Key>>>> \o MakeModuleNames(b, c),
                 IF installable(c) THEN "false" ELSE "true",
                 IF apexType = imageApex THEN b.bundleModuleFile ELSE NoPath,
                 "BUILD_PREBUILT")>>

\* AndroidMk(): the writer of the image type, then the one of the zip type.  It
\* runs only after a generation that reported no error.
AndroidMk ==
    /\ genPc = "done"
    /\ errors = <<>>
    /\ makeData' =
           (IF image(a.apexTypes) THEN androidMkForType(a, cfg, imageApex) ELSE <<>>)
           \o (IF zip(a.apexTypes) THEN androidMkForType(a, cfg, zipApex) ELSE <<>>)
    /\ genPc' = "mk"
    /\ UNCHANGED <<cfg, graph, a, walk, errors, builds, installs>>

\* ---------------------------------------------------------------------
\* Part 3: the Make entries of a java_library (TestRequired, TestHostdex,
\* TestHostdexRequired, TestHostdexSpecificRequired).  The tests give a library's
\* properties and read the entries android.AndroidMkEntriesForTest returns.
\* ---------------------------------------------------------------------
VARIABLES
    library,      \* the java_library's properties: name, hostdex, required, hostdexRequired
    mkPc,         \* "start" before AndroidMkEntriesForTest, "done" after it
    entriesList   \* the entries returned, each [EntryMap |-> key -> list of strings]

mkVars == <<library, mkPc, entriesList>>

\* The module names a `required` list may hold.
RequiredNames == {"libfoo", "libbar", "libbaz"}

\* A module name with a sub-name appended: LOCAL_MODULE of an entry.
SubName(moduleName, subName) == <<moduleName, subName>>

\* AddStrings on an EntryMap: nothing is added, and no key created, for an empty
\* list of values.
AddStringsMutant(entryMap, key, values) ==
    IF key \in DOMAIN entryMap
    THEN [entryMap EXCEPT ![key] = @ \o values]
    ELSE (key :> values) @@ entryMap
AddStrings(entryMap, key, values) ==
    IF values = <<>> THEN entryMap
    ELSE IF key \in DOMAIN entryMap
    THEN [entryMap EXCEPT ![key] = @ \o values]
    ELSE (key :> values) @@ entryMap

\* One entry: LOCAL_MODULE is the module name with the entry's sub-name,
\* LOCAL_REQUIRED_MODULES the entry's own required names followed by the
\* module's `required` list.
MkEntry(lib, subName, entryRequired) ==
    [EntryMap |->
        AddStrings(AddStrings(("LOCAL_MODULE" :> <<SubName(lib.name, subName)>>),
                              "LOCAL_REQUIRED_MODULES", entryRequired),
                   "LOCAL_REQUIRED_MODULES", lib.required)]

\* The entries of a library: the main entry, then the "-hostdex" entry when
\* hostdex is enabled; target.hostdex.required goes to the hostdex entry only.
AndroidMkEntries(lib) ==
    <<MkEntry(lib, "", <<>>)>>
    \o (IF lib.hostdex THEN <<MkEntry(lib, "-hostdex", lib.hostdexRequired)>> ELSE <<>>)

RequiredLists ==
    {q \in SeqsUpTo(RequiredNames, MaxRequired) : \A i, j \in 1..Len(q) : i # j => q[i] # q[j]}

MkInit ==
    /\ library \in [name : {"foo"}, hostdex : BOOLEAN,
                    required : RequiredLists, hostdexRequired : RequiredLists]
    /\ mkPc = "start"
    /\ entriesList = <<>>

\* android.AndroidMkEntriesForTest(t, config, "", mod)
AndroidMkEntriesForTest ==
    /\ mkPc = "start"
    /\ entriesList' = AndroidMkEntries(library)
    /\ mkPc' = "done"
    /\ UNCHANGED library

MkIdle ==
    /\ library = [name |-> "foo", hostdex |-> FALSE, required |-> <<>>,
                  hostdexRequired |-> <<>>]
    /\ mkPc = "idle"
    /\ entriesList = <<>>

\* ---------------------------------------------------------------------
\* Part 4: apexDepsMutator, run for two bundles whose walks interleave.
\* ---------------------------------------------------------------------
VARIABLES
    bundles,         \* bundle name -> [Installable, testApex]
    moduleDeps,      \* node name -> the sequence of its direct dependencies
    capable,         \* the modules whose CanHaveApexVariants() is true
    walks,           \* bundle name -> the state of its walk: frames, visited, visits
    apexNamesMap,    \* the shared table: the set of <<bundle, dependency>> recorded
    apexVariations   \* the set of <<module, bundle>> marked by BuildForApex

phaseVars == <<bundles, moduleDeps, capable, walks, apexNamesMap, apexVariations>>

BundleNames == {"apexA", "apexB"}

ModuleNames == {"m1", "m2", "m3"}

\* if a.installable() && !a.testApex
RecordsDependencyMutant(b) == installable(b)
RecordsDependency(b) == installable(b) /\ ~b.testApex

\* android.UpdateApexDependency(apexBundleName, depName, directDep): an insertion
\* into the shared table keyed by the (bundle, dependency) pair, made for a
\* dependency the bundle reaches directly.
UpdateApexDependencyMutant(table, apexName, depName, directDep) ==
    IF directDep
    THEN {e \in table : e[2] # depName} \cup {<<apexName, depName>>}
    ELSE table
UpdateApexDependency(table, apexName, depName, directDep) ==
    IF directDep THEN table \cup {<<apexName, depName>>} ELSE table

\* am, ok := child.(android.ApexModule); ok && am.CanHaveApexVariants()
CanHaveApexVariantsMutant(cap, child) == TRUE
CanHaveApexVariants(cap, child) == child \in cap

\* A walk frame holds the node whose edges are being walked and the next edge.
\* The frames of a walk without the trailing frames whose edges are all walked.
RECURSIVE PopDone(_, _)
PopDone(edges, frames) ==
    IF frames = <<>> THEN frames
    ELSE IF frames[Len(frames)].idx > Len(edges[frames[Len(frames)].node])
    THEN PopDone(edges, SubSeq(frames, 1, Len(frames) - 1))
    ELSE frames

\* The walk of a bundle after the callback returned `recurse` on the edge from
\* `parent` to `child`: the edge is logged, the frame moves to its next edge, and
\* the walk descends into the child when recurse holds and it has not before.
Advance(edges, w, child, parent, recurse) ==
    [frames |->
        PopDone(edges,
            [w.frames EXCEPT ![Len(w.frames)].idx = @ + 1]
            \o (IF recurse /\ child \notin w.visited THEN <<[node |-> child, idx |-> 1]>>
                ELSE <<>>)),
     visited |-> IF recurse THEN w.visited \cup {child} ELSE w.visited,
     visits |-> Append(w.visits, <<child, parent>>)]

\* The callback of apexDepsMutator's walk from bundle apexBundleName, on the edge
\* from parent to child, as a function of the state s = [walks, table, marked].
Callback(s, bs, edges, cap, apexBundleName, child, parent) ==
    [walks |-> [s.walks EXCEPT ![apexBundleName] =
                   Advance(edges, @, child, parent, CanHaveApexVariants(cap, child))],
     table |-> IF RecordsDependency(bs[apexBundleName])
               THEN UpdateApexDependency(s.table, apexBundleName, child,
                                         parent = apexBundleName)
               ELSE s.table,
     marked |-> IF CanHaveApexVariants(cap, child)
                THEN s.marked \cup {<<child, apexBundleName>>}
                ELSE s.marked]

\* The next edge of a bundle's walk: the callback on it.
TopFrame(w) == w.frames[Len(w.frames)]

WalkStep(s, bs, edges, cap, p) ==
    Callback(s, bs, edges, cap, p,
             edges[TopFrame(s.walks[p]).node][TopFrame(s.walks[p]).idx],
             TopFrame(s.walks[p]).node)

\* The walk of a bundle before its first edge.
NewWalk(edges, p) ==
    [frames |-> PopDone(edges, <<[node |-> p, idx |-> 1]>>), visited |-> {}, visits |-> <<>>]

\* The dependency graphs: the direct dependencies of the two bundles, and the
\* dependencies of the modules (m1 and m2 may depend on m3).
PhaseGraphs ==
    {[apexA |-> da, apexB |-> db, m1 |-> d1, m2 |-> d2, m3 |-> <<>>] :
        da \in SeqsUpTo({"m1", "m2"}, MaxDirect),
        db \in {<<>>, <<"m1">>, <<"m2">>},
        d1 \in {<<>>, <<"m3">>},
        d2 \in {<<>>, <<"m3">>}}

PhaseInit ==
    /\ bundles \in [apexA : [Installable : {"nil", "false"}, testApex : BOOLEAN],
                    apexB : [Installable : {"nil"}, testApex : BOOLEAN]]
    /\ moduleDeps \in PhaseGraphs
    /\ capable \in SUBSET ModuleNames
    /\ walks = [p \in BundleNames |-> NewWalk(moduleDeps, p)]
    /\ apexNamesMap = {}
    /\ apexVariations = {}

\* apexDepsMutator of bundle p, up to and including its next callback.
apexDepsMutator(p) ==
    /\ walks[p].frames # <<>>
    /\ \E r \in {WalkStep([walks |-> walks, table |-> apexNamesMap,
                           marked |-> apexVariations],
                          bundles, moduleDeps, capable, p)} :
          /\ walks' = r.walks
          /\ apexNamesMap' = r.table
          /\ apexVariations' = r.marked
    /\ UNCHANGED <<bundles, moduleDeps, capable>>

PhaseIdle ==
    /\ bundles = [p \in BundleNames |-> [Installable |-> "nil", testApex |-> FALSE]]
    /\ moduleDeps = [n \in BundleNames \cup ModuleNames |-> <<>>]
    /\ capable = {}
    /\ walks = [p \in BundleNames |-> [frames |-> <<>>, visited |-> {}, visits |-> <<>>]]
    /\ apexNamesMap = {}
    /\ apexVariations = {}

\* ---------------------------------------------------------------------
\* Part 5: the registration of module types (package android, register.go).
\* ---------------------------------------------------------------------
VARIABLES
    moduleTypes,       \* var moduleTypes []moduleType: the global list
    ctxModuleTypes,    \* InitRegistrationContext.moduleTypes: typeName -> factory
    regPanic,          \* the typeName whose registration panicked, "" while none did
    regCalls           \* the registrations made so far, as <<receiver, typeName>>

regVars == <<moduleTypes, ctxModuleTypes, regPanic, regCalls>>

\* The module types the apex package registers, and the factories.
TypeNames == {"apex", "apex_test", "apex_defaults"}

TypeFactories == {"apexBundleFactory", "defaultsFactory"}

\* func RegisterModuleType(name, factory): appends to the global list.
RegisterModuleType(typeName, factory) ==
    /\ regPanic = ""
    /\ Len(regCalls) < MaxRegistrations
    /\ moduleTypes' = Append(moduleTypes, [name |-> typeName, factory |-> factory])
    /\ regCalls' = Append(regCalls, <<"android", typeName>>)
    /\ UNCHANGED <<ctxModuleTypes, regPanic>>

\* func (ctx *initRegistrationContext) RegisterModuleType(name, factory): panics
\* if the context has the name, else records it and appends to the global list.
InitRegisterModuleTypeMutant(typeName, factory) ==
    /\ regPanic = ""
    /\ Len(regCalls) < MaxRegistrations
    /\ regCalls' = Append(regCalls, <<"ctx", typeName>>)
    /\ ctxModuleTypes' = (typeName :> factory) @@ ctxModuleTypes
    /\ moduleTypes' = Append(moduleTypes, [name |-> typeName, factory |-> factory])
    /\ UNCHANGED regPanic
InitRegisterModuleType(typeName, factory) ==
    /\ regPanic = ""
    /\ Len(regCalls) < MaxRegistrations
    /\ regCalls' = Append(regCalls, <<"ctx", typeName>>)
    /\ IF typeName \in DOMAIN ctxModuleTypes
       THEN /\ regPanic' = typeName
            /\ UNCHANGED <<moduleTypes, ctxModuleTypes>>
       ELSE /\ ctxModuleTypes' = (typeName :> factory) @@ ctxModuleTypes
            /\ moduleTypes' = Append(moduleTypes, [name |-> typeName, factory |-> factory])
            /\ UNCHANGED regPanic

\* func ModuleTypeFactories(): the map of the global list, a later entry of a
\* name replacing an earlier one.
ModuleTypeFactories ==
    [n \in {moduleTypes[i].name : i \in 1..Len(moduleTypes)} |->
        moduleTypes[CHOOSE i \in 1..Len(moduleTypes) :
                        /\ moduleTypes[i].name = n
                        /\ \A j \in (i + 1)..Len(moduleTypes) : moduleTypes[j].name # n
                   ].factory]

RegInit ==
    /\ moduleTypes = <<>>
    /\ ctxModuleTypes = <<>>
    /\ regPanic = ""
    /\ regCalls = <<>>

RegIdle ==
    /\ moduleTypes = <<>>
    /\ ctxModuleTypes = <<>>
    /\ regPanic = "idle"
    /\ regCalls = <<>>

vars == <<depsVars, genVars, mkVars, phaseVars, regVars>>

\* The variables of the part of the model a specification does not exercise.
DepsIdle ==
    /\ targets = <<>>
    /\ properties = PropertiesOf({}, "", Str(FALSE, ""))
    /\ depsPc = "idle"
    /\ deps = {}
    /\ mutErrors = <<>>

GenIdle ==
    /\ cfg = DefaultConfig
    /\ graph = <<>>
    /\ genPc = "idle"
    /\ a = NewApexBundle
    /\ walk = WalkInit
    /\ errors = <<>>
    /\ builds = <<>>
    /\ installs = <<>>
    /\ makeData = <<>>

DepsNext == DepsMutator /\ UNCHANGED <<genVars, mkVars, phaseVars, regVars>>

\* A bundle before its DepsMutator runs; generation has not started.
DepsSpecInit == DepsInit /\ GenIdle /\ MkIdle /\ PhaseIdle /\ RegIdle

DepsSpec == DepsSpecInit /\ [][DepsNext]_vars

GenNext ==
    \/ GenerateAndroidBuildActions /\ UNCHANGED <<depsVars, mkVars, phaseVars, regVars>>
    \/ AndroidMk /\ UNCHANGED <<depsVars, mkVars, phaseVars, regVars>>

\* A bundle whose dependencies are resolved, before its build actions are generated.
GenSpecInit == GenInit /\ DepsIdle /\ MkIdle /\ PhaseIdle /\ RegIdle

GenSpec == GenSpecInit /\ [][GenNext]_vars

MkNext == AndroidMkEntriesForTest /\ UNCHANGED <<depsVars, genVars, phaseVars, regVars>>

\* A java_library before its Make entries are generated.
MkSpecInit == MkInit /\ DepsIdle /\ GenIdle /\ PhaseIdle /\ RegIdle

MkSpec == MkSpecInit /\ [][MkNext]_vars

\* The bundles' apexDepsMutator runs, interleaved callback by callback.
PhaseNext == (\E p \in BundleNames : apexDepsMutator(p)) /\ UNCHANGED <<depsVars, genVars, mkVars, regVars>>

\* Two bundles before their apexDepsMutator runs.
PhaseSpecInit == PhaseInit /\ DepsIdle /\ GenIdle /\ MkIdle /\ RegIdle

PhaseSpec == PhaseSpecInit /\ [][PhaseNext]_vars

\* The registrations of module types, directly and through the init context.
RegNext ==
    \/ /\ \E n \in TypeNames, f \in TypeFactories : RegisterModuleType(n, f)
       /\ UNCHANGED <<depsVars, genVars, mkVars, phaseVars>>
    \/ /\ \E n \in TypeNames, f \in TypeFactories : InitRegisterModuleType(n, f)
       /\ UNCHANGED <<depsVars, genVars, mkVars, phaseVars>>

\* No module type is registered yet.
RegSpecInit == RegInit /\ DepsIdle /\ GenIdle /\ MkIdle /\ PhaseIdle

RegSpec == RegSpecInit /\ [][RegNext]_vars

\* ---------------------------------------------------------------------
\* Claims about DepsMutator (checked under DepsSpec)
\* ---------------------------------------------------------------------
\* The tag under which the names of a property list are requested.
TagOfList(l) ==
    CASE l[Len(l)] = "Native_shared_libs" -> sharedLibTag
      [] l[Len(l)] = "Binaries" -> executableTag
      [] l[Len(l)] = "Java_libs" -> javaLibTag
      [] OTHER -> prebuiltTag

\* Name n is declared in list l and in no other list requested under the same tag,
\* so that every edge (TagOfList(l), n, _) is requested on account of l alone.
OnlyIn(l, n) ==
    /\ n \in properties.lists[l]
    /\ \A l2 \in PropertyLists \ {l} :
          TagOfList(l2) = TagOfList(l) => n \notin properties.lists[l2]

Is32(i) == ArchMultilib[targets[i]] = "lib32"
Is64(i) == ArchMultilib[targets[i]] = "lib64"
TargetIdx == 1..Len(targets)

\* The edges requested for name n of list l all go to targets satisfying want,
\* and every target satisfying want gets one.
RequestedExactlyFor(l, n, want(_)) ==
    /\ \A i \in TargetIdx : Edge(TagOfList(l), n, targets[i]) \in deps <=> want(i)
    /\ \A e \in deps : e.tag = TagOfList(l) /\ e.name = n
                          => \E i \in TargetIdx : e.arch = targets[i]

NativeKinds == {"Native_shared_libs", "Binaries"}

\* C5: prefer32-bucket dependencies are requested for every 32-bit target, and
\* for a 64-bit target if and only if the target list holds no 32-bit target,
\* wherever in the list the 32-bit target stands.
C5_Prefer32 ==
    depsPc = "done" =>
        \A k \in NativeKinds, n \in DepNames :
            OnlyIn(<<"Prefer32", k>>, n) =>
                LET want(i) == Is32(i) \/ (Is64(i) /\ ~\E j \in TargetIdx : Is32(j))
                IN  RequestedExactlyFor(<<"Prefer32", k>>, n, want)

\* C5 witness: a prefer32 library of a package whose second target is 32-bit is
\* requested for that target and not for the 64-bit primary target.
C5_Witness ==
    /\ depsPc = "done"
    /\ Len(targets) >= 2 /\ Is64(1) /\ Is32(2)
    /\ OnlyIn(<<"Prefer32", "Native_shared_libs">>, "m1")
    /\ Edge(sharedLibTag, "m1", targets[2]) \in deps
    /\ Edge(sharedLibTag, "m1", targets[1]) \notin deps

\* C6: names of the first bucket, and executables and prebuilts declared without
\* a bucket, are requested for target[0] and for no other target.
C6_FirstOnly ==
    depsPc = "done" =>
        \A l \in {<<"First", "Native_shared_libs">>, <<"First", "Binaries">>,
                  <<"Binaries">>, <<"Prebuilts">>}, n \in DepNames :
            OnlyIn(l, n) =>
                LET want(i) == i = 1
                IN  RequestedExactlyFor(l, n, want)

\* C6 witness: a package with several targets and a plain executable, requested
\* for the primary target.
C6_Witness ==
    /\ depsPc = "done"
    /\ Len(targets) >= 2
    /\ OnlyIn(<<"Binaries">>, "m1")
    /\ OnlyIn(<<"First", "Native_shared_libs">>, "m1")
    /\ Edge(executableTag, "m1", targets[1]) \in deps
    /\ Edge(sharedLibTag, "m1", targets[1]) \in deps

\* C7: both-bucket names and shared libraries declared without a bucket are
\* requested for every target; lib32-bucket names exactly for the 32-bit targets
\* and lib64-bucket names exactly for the 64-bit targets.
C7_BothLib32Lib64 ==
    depsPc = "done" =>
        \A n \in DepNames :
            /\ \A l \in {<<"Both", "Native_shared_libs">>, <<"Both", "Binaries">>,
                          <<"Native_shared_libs">>} :
                  OnlyIn(l, n) =>
                      LET want(i) == TRUE IN RequestedExactlyFor(l, n, want)
            /\ \A k \in NativeKinds :
                  /\ OnlyIn(<<"Lib32", k>>, n) =>
                        LET want(i) == Is32(i) IN RequestedExactlyFor(<<"Lib32", k>>, n, want)
                  /\ OnlyIn(<<"Lib64", k>>, n) =>
                        LET want(i) == Is64(i) IN RequestedExactlyFor(<<"Lib64", k>>, n, want)

\* C7 witness: a package with a 32-bit and a 64-bit target, a lib32 library and a
\* lib64 executable, each requested for the target of its bitness only.
C7_Witness ==
    /\ depsPc = "done"
    /\ Len(targets) >= 2 /\ Is64(1) /\ Is32(2)
    /\ OnlyIn(<<"Lib32", "Native_shared_libs">>, "m1")
    /\ OnlyIn(<<"Lib64", "Binaries">>, "m1")
    /\ Edge(sharedLibTag, "m1", targets[2]) \in deps
    /\ Edge(executableTag, "m1", targets[1]) \in deps
    /\ Edge(sharedLibTag, "m1", targets[1]) \notin deps


\* ---------------------------------------------------------------------
\* Claims about GenerateAndroidBuildActions (checked under GenSpec)
\* ---------------------------------------------------------------------
Done == genPc = "done"

CountOf(seq, x) == Cardinality({i \in 1..Len(seq) : seq[i] = x})

\* The indices of the ctx.Build calls of a rule.
BuildsOf(rule) == {i \in 1..Len(builds) : builds[i].rule = rule}

\* The entries of a file list are in strictly ascending order of builtFile.String()
\* up to entry n (which also makes their source paths pairwise distinct).
StrictlySorted(filesInfo, n) ==
    \A i, j \in 1..n : i < j => filesInfo[i].builtFile.rank < filesInfo[j].builtFile.rank

NoDuplicates(filesInfo) ==
    \A i, j \in 1..Len(filesInfo) : i # j => filesInfo[i].builtFile # filesInfo[j].builtFile

\* The last entry of the bundle's file list is the manifest entry that
\* buildFlattenedApex appends.
ManifestAppended ==
    /\ a.filesInfo # <<>>
    /\ a.filesInfo[Len(a.filesInfo)].builtFile = copiedManifest

\* A key edge of the graph leads to an apex_key module.
KeyResolved ==
    \E i \in 1..Len(graph) : graph[i].tag = keyTag /\ Modules[graph[i].mod].kind = "apexKey"

PayloadValid == cfg.Payload_type \in {"nil", "image", "zip", "both"}

\* C1 (as claimed): once GenerateAndroidBuildActions has finished, the bundle's
\* file list holds no two entries with the same source path and is sorted in
\* ascending order of that path.
C1_SortedUnique ==
    Done => /\ NoDuplicates(a.filesInfo)
            /\ StrictlySorted(a.filesInfo, Len(a.filesInfo))

\* C1 (amended): the entries collected from the dependencies are pairwise distinct
\* in source path and in ascending order of it; the manifest entry, appended last
\* exactly when generation got as far as packaging an image payload of an
\* installable bundle, is not part of that order.
C1_SortedUniqueBeforeManifest ==
    Done =>
        /\ ManifestAppended <=>
               (PayloadValid /\ KeyResolved /\ installable(cfg) /\ image(a.apexTypes))
        /\ StrictlySorted(a.filesInfo,
               IF ManifestAppended THEN Len(a.filesInfo) - 1 ELSE Len(a.filesInfo))
        /\ \A i \in 1..Len(a.filesInfo) - 1 : a.filesInfo[i].builtFile # copiedManifest

\* C1 witness: the walk met one artifact twice and collected files out of order;
\* the finished list is deduplicated, sorted, and followed by the manifest entry,
\* whose path sorts before the one preceding it.
C1_Witness ==
    /\ Done /\ ManifestAppended
    /\ Len(a.filesInfo) >= 3
    /\ Len(walk.filesInfo) > Len(a.filesInfo) - 1
    /\ ~StrictlySorted(walk.filesInfo, Len(walk.filesInfo))
    /\ a.filesInfo[Len(a.filesInfo) - 1].builtFile.rank > copiedManifest.rank

\* C2: when no key edge leads to a key module, generation ends with an error and
\* has emitted no build action and no install action.
C2_NoKeyNoActions ==
    Done /\ ~KeyResolved =>
        /\ builds = <<>> /\ installs = <<>>
        /\ errors # <<>>
        /\ PayloadValid => errors[Len(errors)] = Err("key", cfg.Key)
        /\ a.filesInfo = <<>> /\ DOMAIN a.outputFiles = {}

\* C2 witness: the key edge leads to a module that is no key provider, files were
\* collected during the walk, and nothing was emitted.
C2_Witness ==
    /\ Done /\ ~KeyResolved /\ PayloadValid
    /\ \E i \in 1..Len(graph) : graph[i].tag = keyTag
    /\ walk.filesInfo # <<>>
    /\ builds = <<>> /\ installs = <<>>

\* C3: when the security-label file is missing and the failure is reported, no
\* artifact-producing and no install action of the package has been emitted,
\* whatever the payload type.
C3_FileContextsFatal ==
    Done /\ FileContextsMissing(cfg, FcName(cfg)) /\ InList(Err("", "file_contexts"), errors)
        => builds = <<>> /\ installs = <<>>

\* The paths of package files under the executables directory, with their
\* ancestor directories: every non-empty prefix of installDir/base.
Prefixes(p) == {SubSeq(p, 1, n) : n \in 1..Len(p)}

UnderBin(f) == f.installDir # <<>> /\ f.installDir[1] = "bin"

\* C4: in the access-mode manifest, the path of every packaged file under the
\* executables directory and every ancestor directory of it is listed in the
\* executable partition and not in the read-only partition.
C4_ExecutablePaths ==
    Done =>
        \A b \in BuildsOf("generateFsConfig") :
            \A i \in 1..Len(a.filesInfo) :
                UnderBin(a.filesInfo[i]) =>
                    \A p \in Prefixes(Join(a.filesInfo[i].installDir,
                                           <<a.filesInfo[i].builtFile.base>>)) :
                        /\ InList(p, builds[b].args.exec_paths)
                        /\ ~InList(p, builds[b].args.ro_paths)

\* The indices of the builds that carry copy commands.
CopyBuilds == BuildsOf("apexRule") \cup BuildsOf("zipApexRule")

\* C8: every symlink instruction links to a bare base name, and a packaged file
\* of that name is copied into the directory in which the symlink is created.
C8_Symlinks ==
    Done =>
        \A b \in CopyBuilds :
            LET cmds == builds[b].args.copy_commands
            IN  \A k \in 1..Len(cmds) :
                    cmds[k].op = "ln" =>
                        /\ Len(cmds[k].target) = 1
                        /\ cmds[k].path[1] = builds[b].args.image_dir
                        /\ \E j \in 1..Len(cmds) :
                              /\ cmds[j].op = "cp"
                              /\ Dir(cmds[j].path) = Dir(cmds[k].path)
                              /\ <<Base(cmds[j].path)>> = cmds[k].target
                              /\ \E i \in 1..Len(a.filesInfo) :
                                    a.filesInfo[i].builtFile = cmds[j].src

\* C8 witness: an image build and a zip build whose copy commands hold a symlink.
C8_Witness ==
    /\ Done
    /\ \A r \in {"apexRule", "zipApexRule"} :
          \E b \in BuildsOf(r) :
              \E k \in 1..Len(builds[b].args.copy_commands) :
                  builds[b].args.copy_commands[k].op = "ln"

\* The direct edges with a given tag to a given module.
EdgeCount(tag, mod) == CountOf(graph, Dep(tag, mod))

\* A java_libs edge to a java library without a dex jar.
JavaNoDex(e) ==
    /\ e.tag = javaLibTag
    /\ Modules[e.mod].kind = "java"
    /\ Modules[e.mod].out = NoPath

\* The packaging builds of every requested payload type hold file f.
PackagedIn(rule, f) ==
    /\ BuildsOf(rule) # {}
    /\ \A b \in BuildsOf(rule) :
          /\ InList(f, builds[b].implicits)
          /\ \E k \in 1..Len(builds[b].args.copy_commands) :
                /\ builds[b].args.copy_commands[k].op = "cp"
                /\ builds[b].args.copy_commands[k].src = f

\* The configuration lets generation reach the packaging of rule's payload.
Packages(rule) ==
    /\ PayloadValid /\ KeyResolved
    /\ rule = "apexRule" =>
           image(a.apexTypes) /\ ~FileContextsMissing(cfg, FcName(cfg))
    /\ rule = "zipApexRule" => zip(a.apexTypes)

\* C9: a java_libs dependency without a compiled dex archive is reported by
\* exactly one error naming it (per edge), adds no file, and does not stop
\* generation: the package artifacts are emitted with every file collected from
\* the other dependencies.
C9_JavaNoDex ==
    Done /\ PayloadValid =>
        \A i \in 1..Len(graph) :
            JavaNoDex(graph[i]) =>
                /\ CountOf(walk.errors, Err("java_libs", Modules[graph[i].mod].name))
                       = EdgeCount(javaLibTag, graph[i].mod)
                /\ \A k \in 1..Len(walk.filesInfo) :
                       walk.filesInfo[k].module # graph[i].mod
                /\ \A rule \in {"apexRule", "zipApexRule"} :
                       Packages(rule) =>
                           /\ BuildsOf(rule) # {}
                           /\ BuildsOf("Signapk") # {}
                           /\ \A k \in 1..Len(walk.filesInfo) :
                                  PackagedIn(rule, walk.filesInfo[k].builtFile)

\* C9 witness: a java library without dex and another dependency; one error, and
\* the image is built and signed with the other dependency's file.
C9_Witness ==
    /\ Done
    /\ Len(graph) >= 2 /\ JavaNoDex(graph[1])
    /\ walk.errors = <<Err("java_libs", "jar_nodex")>>
    /\ walk.filesInfo # <<>>
    /\ PackagedIn("apexRule", walk.filesInfo[1].builtFile)
    /\ BuildsOf("Signapk") # {}

\* The tags of the dependencies that carry files, with the property an error is
\* reported against and the file classes an edge of the tag yields.
FileTags == {sharedLibTag, executableTag, javaLibTag, prebuiltTag}

PropertyOfTag(tag) ==
    CASE tag = sharedLibTag -> "native_shared_libs"
      [] tag = executableTag -> "binaries"
      [] tag = javaLibTag -> "java_libs"
      [] OTHER -> "prebuilts"

ClassesOfTag(tag) ==
    CASE tag = sharedLibTag -> {nativeSharedLib}
      [] tag = executableTag -> {nativeExecutable, shBinary}
      [] tag = javaLibTag -> {javaSharedLib}
      [] OTHER -> {etc}

\* The module kinds a tag accepts (the table of the dependency classifier).
KindsOfTag(tag) ==
    CASE tag = sharedLibTag -> {"cc"}
      [] tag = executableTag -> {"cc", "sh"}
      [] tag = javaLibTag -> {"java"}
      [] OTHER -> {"prebuilt"}

WrongKind(e) == e.tag \in FileTags /\ Modules[e.mod].kind \notin KindsOfTag(e.tag)

\* A direct edge that yields a file: the right kind, and neither a
\* non-native-architecture executable nor a java library without dex.
YieldsFile(e) ==
    /\ e.tag \in FileTags /\ ~WrongKind(e)
    /\ ~(e.tag = executableTag /\ Modules[e.mod].kind = "cc" /\ ~Modules[e.mod].native)
    /\ ~JavaNoDex(e)

\* The walk collected a file of the class of e's tag from e's module.
Collected(e) ==
    \E k \in 1..Len(walk.filesInfo) :
        /\ walk.filesInfo[k].module = e.mod
        /\ walk.filesInfo[k].class \in ClassesOfTag(e.tag)
        /\ walk.filesInfo[k].builtFile = Modules[e.mod].out

\* C10: every direct dependency is visited; one of the wrong module kind for its
\* tag is reported by its own error (one per edge) and adds no file, and every
\* other direct dependency that carries a file is collected all the same.
C10_MismatchesRecoverable ==
    Done /\ PayloadValid =>
        /\ Cardinality({k \in 1..Len(walk.visits) : walk.visits[k][2] = Root}) = Len(graph)
        /\ \A i \in 1..Len(graph) :
              /\ InList(<<graph[i].mod, Root>>, walk.visits)
              /\ WrongKind(graph[i]) =>
                    /\ CountOf(walk.errors,
                               Err(PropertyOfTag(graph[i].tag), Modules[graph[i].mod].name))
                           = EdgeCount(graph[i].tag, graph[i].mod)
                    /\ ~Collected(graph[i])
              /\ YieldsFile(graph[i]) => Collected(graph[i])

\* C10 witness: a wrong-kind dependency is visited first and reported, and the
\* dependency after it is collected.
C10_Witness ==
    /\ Done
    /\ Len(graph) >= 2
    /\ WrongKind(graph[1]) /\ YieldsFile(graph[2])
    /\ Len(walk.errors) = 1
    /\ Collected(graph[2])

\* The rules of the image construction and of the zip construction.
ImageRules == {"generateFsConfig", "apexRule", "apexProtoConvertRule", "apexBundleRule"}

ZipRules == {"zipApexRule"}

Emitted(rule) == BuildsOf(rule) # {}

\* C11: image construction actions are emitted only for payload type image (or
\* none) or both, zip construction actions only for zip or both, and they are
\* emitted for those types whenever generation gets to packaging (the key is
\* resolved and, for the image, the security-label file exists); any other
\* payload-type value is reported as an error of property "type" before the walk:
\* no module is visited and no build or install action is emitted.
C11_PayloadDispatch ==
    Done =>
        /\ \A r \in ImageRules :
              /\ Emitted(r) => cfg.Payload_type \in {"nil", "image", "both"}
              /\ (cfg.Payload_type \in {"nil", "image", "both"} /\ Packages("apexRule"))
                     => Emitted(r)
        /\ \A r \in ZipRules :
              /\ Emitted(r) => cfg.Payload_type \in {"zip", "both"}
              /\ (cfg.Payload_type \in {"zip", "both"} /\ KeyResolved) => Emitted(r)
        /\ ~PayloadValid =>
              /\ errors = <<Err("type", cfg.Payload_type)>>
              /\ walk = WalkInit
              /\ builds = <<>> /\ installs = <<>>

\* C11 witness: a zip-only bundle with dependencies: the zip construction is
\* emitted and no image construction action is.
C11_Witness ==
    /\ Done /\ cfg.Payload_type = "zip"
    /\ Len(graph) >= 2
    /\ Emitted("zipApexRule")
    /\ \A r \in ImageRules : ~Emitted(r)

\* The bundle declares no dependency that carries a file: its edges lead to the
\* key and the certificate only.
NoFileDeps == \A i \in 1..Len(graph) : graph[i].tag \in {keyTag, certificateTag}

\* The image of the bundle is packaged and signed, from no dependency file.
EmptyImageBuilt ==
    /\ \E b \in BuildsOf("apexRule") :
          /\ builds[b].output = UnsignedOutput(imageApexSuffix)
          /\ builds[b].args.copy_commands = <<>>
          /\ builds[b].args.manifest = ManifestSrc(cfg)
          /\ builds[b].args.file_contexts = FileContextsSrc(FcName(cfg))
    /\ \E b \in BuildsOf("Signapk") :
          /\ builds[b].input = UnsignedOutput(imageApexSuffix)
          /\ builds[b].output = SignedOutput(imageApexSuffix)

\* A generation of an image payload that gets to packaging with no file dependency.
EmptyBundle ==
    /\ Done /\ NoFileDeps /\ KeyResolved
    /\ cfg.Payload_type \in {"nil", "image", "both"}
    /\ ~FileContextsMissing(cfg, FcName(cfg))

\* C12 (as claimed): a bundle without file dependencies, with a resolved key,
\* ends with an empty file list, and its image is built and signed.
C12_EmptyBundle ==
    EmptyBundle => a.filesInfo = <<>> /\ EmptyImageBuilt

\* C12 (amended): such a bundle collects no file and its image is built and signed
\* from the manifest and the security labels only; its final file list is empty
\* when the bundle is not installable, and holds exactly the copied manifest entry
\* that buildFlattenedApex appends when it is.
C12_EmptyBundleButManifest ==
    EmptyBundle =>
        /\ walk.filesInfo = <<>>
        /\ EmptyImageBuilt
        /\ a.filesInfo =
               IF installable(cfg)
               THEN <<ApexFile(copiedManifest, <<ApexName, "apex_manifest.json">>,
                               <<".">>, etc, NIL, <<>>)>>
               ELSE <<>>

\* C12 witness: an installable bundle of a key only, whose final file list is the
\* manifest entry alone, with the image built and signed.
C12_Witness ==
    /\ EmptyBundle /\ installable(cfg)
    /\ Len(a.filesInfo) = 1 /\ ManifestAppended
    /\ EmptyImageBuilt

\* The staging tree the copy commands of build b create: the relative path of
\* every copied file with its source artifact, and the relative path of every
\* symlink with the artifact of the file it links to.
ImageTree(b) ==
    LET cmds == builds[b].args.copy_commands
        Rel(p) == SubSeq(p, 2, Len(p))
    IN  {<<Rel(cmds[k].path), cmds[k].src>> : k \in {j \in 1..Len(cmds) : cmds[j].op = "cp"}}
        \cup {<<Rel(cmds[k].path), cmds[j].src>> :
                 <<k, j>> \in {kj \in (1..Len(cmds)) \X (1..Len(cmds)) :
                                  /\ cmds[kj[1]].op = "ln" /\ cmds[kj[2]].op = "cp"
                                  /\ Dir(cmds[kj[2]].path) = Dir(cmds[kj[1]].path)
                                  /\ <<Base(cmds[kj[2]].path)>> = cmds[kj[1]].target}}

\* The tree the flattened install actions create below apex/<name>, without the
\* manifest-description file.
FlattenedTree ==
    {<<SubSeq(installs[i].dir, 3, Len(installs[i].dir)) \o <<installs[i].name>>,
       installs[i].file>> :
        i \in {j \in 1..Len(installs) :
                  /\ Len(installs[j].dir) >= 2
                  /\ SubSeq(installs[j].dir, 1, 2) = <<"apex", ApexName>>
                  /\ installs[j].file # copiedManifest}}

\* The bundle was both staged as an image and installed flattened.
StagedAndFlattened ==
    /\ Done /\ Emitted("apexRule")
    /\ installable(cfg) /\ cfg.FlattenApex

\* C13: the flattened installation and the image staging tree of a package hold
\* the same relative paths (symlinks included), each with the same source
\* artifact, but for the manifest-description file.
C13_FlattenedEqualsImage ==
    StagedAndFlattened =>
        \A b \in BuildsOf("apexRule") : ImageTree(b) = FlattenedTree

\* The files of both trees agree when symlinks are left aside.
FlattenedFilesAgree ==
    StagedAndFlattened =>
        \A b \in BuildsOf("apexRule") :
            {e \in ImageTree(b) :
                \E k \in 1..Len(builds[b].args.copy_commands) :
                    /\ builds[b].args.copy_commands[k].op = "cp"
                    /\ SubSeq(builds[b].args.copy_commands[k].path, 2,
                              Len(builds[b].args.copy_commands[k].path)) = e[1]}
                = FlattenedTree

\* The key module the bundle's key edge leads to (when KeyResolved).
KeyModule ==
    Modules[graph[CHOOSE i \in 1..Len(graph) :
                      graph[i].tag = keyTag /\ Modules[graph[i].mod].kind = "apexKey"].mod]

\* Build b embeds the public key file pub: as the --pubkey option and as an input.
HasPubKeyOption(b) ==
    \E k \in 1..Len(builds[b].args.opt_flags) : builds[b].args.opt_flags[k][1] = "--pubkey"

EmbedsPubKey(b, pub) ==
    /\ InList(<<"--pubkey", pub.base>>, builds[b].args.opt_flags)
    /\ InList(pub, builds[b].implicits)

\* C14: the image builder gets the key module's public key, as the --pubkey
\* option and as an input, exactly when the key module is not installable and
\* the build is debuggable; otherwise it gets no --pubkey option and the public
\* key is no input, so a non-debuggable build never embeds it.
C14_PubKey ==
    Done =>
        \A b \in BuildsOf("apexRule") :
            IF ~KeyModule.keyInstallable /\ cfg.Debuggable
            THEN EmbedsPubKey(b, KeyModule.public_key_file)
            ELSE /\ ~HasPubKeyOption(b)
                 /\ ~InList(KeyModule.public_key_file, builds[b].implicits)

\* C14 witness: a non-debuggable build with a key that is not installable: the
\* image is built and no public key is embedded.
C14_Witness ==
    /\ Done /\ ~cfg.Debuggable
    /\ KeyResolved /\ ~KeyModule.keyInstallable
    /\ Emitted("apexRule")
    /\ \A b \in BuildsOf("apexRule") : ~HasPubKeyOption(b)

\* The certificate pair the bundle's Certificate property resolves to: the named
\* pair of the default directory, the default pair, or the pair of the certificate
\* module (none when the named module provides no certificate).
ExpectedCertificate ==
    IF cfg.Certificate.name = "" THEN DefaultAppCertificate
    ELSE IF ~cfg.Certificate.colon THEN DefaultDirCertificate(cfg.Certificate.name)
    ELSE IF Modules[cfg.Certificate.name].kind = "cert"
    THEN [Pem |-> Modules[cfg.Certificate.name].certPem,
          Key |-> Modules[cfg.Certificate.name].certKey]
    ELSE [Pem |-> NoPath, Key |-> NoPath]

\* The construction rule and the suffix of a payload type.
RuleOfType(t) == IF t = imageApex THEN "apexRule" ELSE "zipApexRule"

\* Build s signs the unsigned output of payload type t.
Signs(s, t) ==
    /\ builds[s].rule = "Signapk"
    /\ builds[s].input = UnsignedOutput(suffix(t))
    /\ builds[s].implicits = <<>>
    /\ builds[s].args.flags = "-a 4096"
    /\ builds[s].args.certificates = <<ExpectedCertificate.Pem, ExpectedCertificate.Key>>

\* C15: every payload construction action is followed by exactly one signing
\* action that takes the payload's unsigned output as its only input and signs it
\* with the resolved certificate pair at alignment 4096; the output of that action
\* is the output recorded for the payload type, and an output is recorded for no
\* payload type without a signing action.
C15_Signing ==
    Done =>
        \A t \in {imageApex, zipApex} :
            /\ \A b \in BuildsOf(RuleOfType(t)) :
                  /\ builds[b].output = UnsignedOutput(suffix(t))
                  /\ Cardinality({s \in 1..Len(builds) : Signs(s, t)}) = 1
                  /\ \A s \in 1..Len(builds) :
                        Signs(s, t) =>
                            /\ s > b
                            /\ t = imageApex =>
                                   \A r \in ImageRules : \A i \in BuildsOf(r) : i < s
                            /\ t \in DOMAIN a.outputFiles
                            /\ a.outputFiles[t] = builds[s].output
            /\ t \in DOMAIN a.outputFiles =>
                  \E s \in 1..Len(builds) :
                      Signs(s, t) /\ builds[s].output = a.outputFiles[t]
            /\ BuildsOf(RuleOfType(t)) = {} => ~\E s \in 1..Len(builds) : Signs(s, t)

\* C15 witness: both payloads are built with a certificate module; each is signed
\* with that module's pair and its signed file is the recorded output.
C15_Witness ==
    /\ Done /\ cfg.Certificate = Str(TRUE, "mycert")
    /\ DOMAIN a.outputFiles = {imageApex, zipApex}
    /\ \A t \in {imageApex, zipApex} :
          \E s \in 1..Len(builds) : Signs(s, t) /\ a.outputFiles[t] = builds[s].output

\* ---------------------------------------------------------------------
\* Claims about the Make entries of a java_library (checked under MkSpec)
\* ---------------------------------------------------------------------
MainEntries == entriesList[1].EntryMap

SubEntries == entriesList[2].EntryMap

Requires(entryMap, n) ==
    /\ "LOCAL_REQUIRED_MODULES" \in DOMAIN entryMap
    /\ InList(n, entryMap["LOCAL_REQUIRED_MODULES"])

\* C16: a java_library with hostdex enabled yields exactly two entries, named
\* after the module and <module>-hostdex; every name of `required` is in
\* LOCAL_REQUIRED_MODULES of both; a name only in target.hostdex.required is in
\* that of the hostdex entry only, and with an empty `required` list the main
\* entry has no LOCAL_REQUIRED_MODULES key.
C16_Hostdex ==
    mkPc = "done" /\ library.hostdex =>
        /\ Len(entriesList) = 2
        /\ MainEntries["LOCAL_MODULE"] = <<SubName(library.name, "")>>
        /\ SubEntries["LOCAL_MODULE"] = <<SubName(library.name, "-hostdex")>>
        /\ \A n \in Range(library.required) :
              Requires(MainEntries, n) /\ Requires(SubEntries, n)
        /\ \A n \in Range(library.hostdexRequired) \ Range(library.required) :
              Requires(SubEntries, n) /\ ~Requires(MainEntries, n)
        /\ library.required = <<>> => "LOCAL_REQUIRED_MODULES" \notin DOMAIN MainEntries

\* C16 witness: hostdex with a name under target.hostdex.required only: two
\* entries, the name in the hostdex entry, no required key in the main entry.
C16_Witness ==
    /\ mkPc = "done" /\ library.hostdex
    /\ library.required = <<>> /\ library.hostdexRequired = <<"libfoo">>
    /\ Len(entriesList) = 2
    /\ SubEntries["LOCAL_REQUIRED_MODULES"] = <<"libfoo">>
    /\ "LOCAL_REQUIRED_MODULES" \notin DOMAIN MainEntries

\* ---------------------------------------------------------------------
\* Claims about apexDepsMutator (PhaseSpec).
\* ---------------------------------------------------------------------
\* The edges from parent to child that the walk of bundle p has visited.
VisitedEdge(p, child, parent) ==
    \E k \in 1..Len(walks[p].visits) : walks[p].visits[k] = <<child, parent>>

VisitedChild(p, child) ==
    \E parent \in BundleNames \cup ModuleNames : VisitedEdge(p, child, parent)

WalkDone(p) == walks[p].frames = <<>>

AllDone == \A p \in BundleNames : WalkDone(p)

\* C17: during the walk from a bundle, the pair (bundle, child) is in the shared
\* table exactly when the walk has visited the child on an edge from the bundle
\* itself and the bundle is installable and is not a test bundle; a child visited
\* only below another module has no pair.
C17_InstallDeps ==
    \A p \in BundleNames : \A c \in ModuleNames :
        <<p, c>> \in apexNamesMap
            <=> /\ VisitedEdge(p, c, p)
                /\ bundles[p].Installable # "false"
                /\ ~bundles[p].testApex

\* A bundle that records has visited one module directly and another only below a
\* module: the first has a pair, the second has none.
C17_Witness ==
    /\ <<"apexA", "m1">> \in apexNamesMap
    /\ VisitedEdge("apexA", "m3", "m1")
    /\ ~VisitedEdge("apexA", "m3", "apexA")
    /\ <<"apexA", "m3">> \notin apexNamesMap
    /\ bundles["apexB"].testApex
    /\ VisitedEdge("apexB", "m2", "apexB")

\* The modules a bundle reaches along edges whose every endpoint below the bundle
\* declares CanHaveApexVariants.
RECURSIVE CapableBelow(_, _)
CapableBelow(nodes, n) ==
    IF n = 0 THEN {}
    ELSE LET direct == UNION {Range(moduleDeps[x]) : x \in nodes} \cap capable
         IN  direct \cup CapableBelow(direct, n - 1)

CapableReach(p) == CapableBelow({p}, Cardinality(ModuleNames))

MarkedFor(p) == {m \in ModuleNames : <<m, p>> \in apexVariations}

\* C18: the walk marks only modules that can have apex variants, visits edges only
\* from the bundle or from such a module, and when it is over the modules marked
\* for the bundle are those it reaches through such modules alone.
C18_Marking ==
    \A p \in BundleNames :
        /\ MarkedFor(p) \subseteq capable
        /\ \A k \in 1..Len(walks[p].visits) :
              walks[p].visits[k][2] = p \/ walks[p].visits[k][2] \in capable
        /\ WalkDone(p) => MarkedFor(p) = CapableReach(p)

\* A finished walk that marked a module, visited a module that cannot have apex
\* variants, and left the capable module below it unmarked and unvisited.
C18_Witness ==
    /\ WalkDone("apexA")
    /\ "m1" \notin capable
    /\ VisitedEdge("apexA", "m1", "apexA")
    /\ "m3" \in capable
    /\ "m3" \in Range(moduleDeps["m1"])
    /\ ~VisitedChild("apexA", "m3")
    /\ <<"m3", "apexA">> \notin apexVariations
    /\ <<"m2", "apexA">> \in apexVariations

\* The walk of bundle p run from state s to its end without interruption.
RECURSIVE RunWalk(_, _)
RunWalk(s, p) ==
    IF s.walks[p].frames = <<>> THEN s
    ELSE RunWalk(WalkStep(s, bundles, moduleDeps, capable, p), p)

\* The bundles' walks run one after the other in the given order.
RunInOrder(first, second) ==
    RunWalk(RunWalk([walks |-> [p \in BundleNames |-> NewWalk(moduleDeps, p)],
                     table |-> {}, marked |-> {}], first), second)

\* C19: when the walks of all bundles are over, the shared table is the one that
\* running the walks one after the other produces, in either order.
C19_Interleavings ==
    AllDone =>
        /\ apexNamesMap = RunInOrder("apexA", "apexB").table
        /\ apexNamesMap = RunInOrder("apexB", "apexA").table

\* Both walks are over, both bundles recorded the same module, and one of them
\* wrote its pair twice.
C19_Witness ==
    /\ AllDone
    /\ moduleDeps["apexA"] = <<"m1", "m1">>
    /\ <<"apexA", "m1">> \in apexNamesMap
    /\ <<"apexB", "m1">> \in apexNamesMap

\* ---------------------------------------------------------------------
\* Claims about the indirect dependencies of the collector (GenSpec).
\* ---------------------------------------------------------------------
\* The visits of module m on an edge out of another module than the bundle.
IndirectVisits(m) ==
    {k \in 1..Len(walk.visits) : walk.visits[k][1] = m /\ walk.visits[k][2] # Root}

\* The files the walk collected from module m.
FilesOf(m) == {k \in 1..Len(walk.filesInfo) : walk.filesInfo[k].module = m}

\* The direct edges to module m that yield a file.
DirectYields(m) == {i \in 1..Len(graph) : graph[i].mod = m /\ YieldsFile(graph[i])}

\* A native module that can have apex variants, is installable to an apex, and is
\* neither a stubs library nor a library with stubs variants.
Embeddable(m) ==
    /\ Modules[m].kind = "cc"
    /\ Modules[m].canHaveApexVariants /\ Modules[m].installableToApex
    /\ ~Modules[m].isStubs /\ ~Modules[m].hasStubsVariants

\* C20: on indirect edges the walk adds one native shared library file per visit
\* of an embeddable module and no file for any other module, and it visits no
\* edge below a module that it reached only indirectly and that is not embeddable
\* (a stubs library, one with stubs variants, or a module of another kind).
C20_IndirectEdges ==
    Done /\ PayloadValid =>
        \A m \in DOMAIN Modules :
            /\ Cardinality(FilesOf(m))
                   = Cardinality(DirectYields(m))
                     + (IF Embeddable(m) THEN Cardinality(IndirectVisits(m)) ELSE 0)
            /\ (IndirectVisits(m) # {} /\ Embeddable(m)) =>
                   \E k \in FilesOf(m) :
                       /\ walk.filesInfo[k].class = nativeSharedLib
                       /\ walk.filesInfo[k].builtFile = Modules[m].out
            /\ (~Embeddable(m) /\ \A i \in 1..Len(graph) : graph[i].mod # m) =>
                   \A k \in 1..Len(walk.visits) : walk.visits[k][2] # m

\* A walk that reached, below a direct shared library, an embeddable library, a
\* library with stubs variants, a stubs library, a header module and a library
\* not installable to an apex: only the first gave a file, and the library below
\* the other native ones was never visited.
C20_Witness ==
    /\ Done /\ PayloadValid
    /\ \A m \in {"libbar", "libstub", "libstub_v1", "libhdr", "libstatic"} :
          /\ IndirectVisits(m) # {}
          /\ \A i \in 1..Len(graph) : graph[i].mod # m
    /\ Cardinality(FilesOf("libbar")) = 1
    /\ \A m \in {"libstub", "libstub_v1", "libhdr", "libstatic"} : FilesOf(m) = {}
    /\ \A k \in 1..Len(walk.visits) : walk.visits[k][1] # "libimpl"

\* ---------------------------------------------------------------------
\* Claims about native executables (GenSpec).
\* ---------------------------------------------------------------------
\* The direct binaries edges to native (cc) modules.
NativeExecutableEdges ==
    {i \in 1..Len(graph) : graph[i].tag = executableTag /\ Modules[graph[i].mod].kind = "cc"}

\* The files the walk collected from module m as native executables in bin.
BinFilesOf(m) ==
    {k \in FilesOf(m) : /\ walk.filesInfo[k].class = nativeExecutable
                        /\ walk.filesInfo[k].installDir = <<"bin">>
                        /\ walk.filesInfo[k].builtFile = Modules[m].out}

\* C21 as stated: no native executable of a non-native architecture is in the
\* file list, and no two entries of the final file list that are installed in
\* bin have the same base name.
C21_OneFilePerBaseName ==
    Done /\ PayloadValid =>
        /\ \A i \in NativeExecutableEdges :
              ~Modules[graph[i].mod].native => FilesOf(graph[i].mod) = {}
        /\ \A j, k \in 1..Len(a.filesInfo) :
              (/\ a.filesInfo[j].installDir = <<"bin">>
               /\ a.filesInfo[k].installDir = <<"bin">>
               /\ a.filesInfo[j].builtFile.base = a.filesInfo[k].builtFile.base)
                  => j = k

\* C21 (amended): no native executable of a non-native architecture is in the
\* file list, and every binaries edge to a native executable of a native
\* architecture, whichever it is, adds one file installed in bin.
C21_NativeExecutablesKept ==
    Done /\ PayloadValid =>
        \A i \in NativeExecutableEdges :
            IF Modules[graph[i].mod].native
            THEN Cardinality(BinFilesOf(graph[i].mod))
                     = EdgeCount(executableTag, graph[i].mod)
            ELSE FilesOf(graph[i].mod) = {}

\* A bundle with a native-bridge executable and a native one: the walk visited
\* both and only the second is in the final file list.
C21_Witness ==
    /\ Done /\ PayloadValid
    /\ graph[1] = Dep(executableTag, "tool_nb")
    /\ graph[2] = Dep(executableTag, "tool")
    /\ InList(<<"tool_nb", Root>>, walk.visits)
    /\ ~\E k \in 1..Len(a.filesInfo) : a.filesInfo[k].module = "tool_nb"
    /\ \E k \in 1..Len(a.filesInfo) :
          /\ a.filesInfo[k].module = "tool"
          /\ a.filesInfo[k].installDir = <<"bin">>

\* ---------------------------------------------------------------------
\* Claims about the access-mode manifest (GenSpec).
\* ---------------------------------------------------------------------
\* C23: in every generateFsConfig action no path occurs twice in ro_paths, none
\* occurs twice in exec_paths, and none occurs in both.
C23_ListedOnce ==
    Done =>
        \A b \in BuildsOf("generateFsConfig") :
            /\ \A p \in Range(builds[b].args.ro_paths) :
                  CountOf(builds[b].args.ro_paths, p) = 1
            /\ \A p \in Range(builds[b].args.exec_paths) :
                  /\ CountOf(builds[b].args.exec_paths, p) = 1
                  /\ ~InList(p, builds[b].args.ro_paths)

\* ---------------------------------------------------------------------
\* Claims about the install step (GenSpec).
\* ---------------------------------------------------------------------
\* The payload types the bundle requests.
RequestedTypes ==
    {t \in {imageApex, zipApex} :
        (t = imageApex /\ image(a.apexTypes)) \/ (t = zipApex /\ zip(a.apexTypes))}

\* The installation of the signed archive of payload type t.
ArchiveInstall(t) ==
    Install(<<"apex">>, SignedOutput(suffix(t)).base, SignedOutput(suffix(t)))

\* The unsigned archive of type t is built and signed.
BuiltAndSigned(t) ==
    /\ \E b \in BuildsOf(RuleOfType(t)) : builds[b].output = UnsignedOutput(suffix(t))
    /\ \E s \in 1..Len(builds) : Signs(s, t)

\* C22 as stated: for every requested payload type that generation gets to
\* package, the archive is built and signed in either mode; an installable bundle
\* installs the signed archive and nothing else when FlattenApex is off, and its
\* individual files under apex/<name> and no archive when FlattenApex is on.
C22_InstallByMode ==
    Done =>
        \A t \in RequestedTypes :
            Packages(RuleOfType(t)) =>
                /\ BuiltAndSigned(t)
                /\ (installable(cfg) /\ ~cfg.FlattenApex) =>
                       /\ InList(ArchiveInstall(t), installs)
                       /\ \A k \in 1..Len(installs) : installs[k].dir = <<"apex">>
                /\ (installable(cfg) /\ cfg.FlattenApex) =>
                       /\ ~InList(ArchiveInstall(t), installs)
                       /\ installs = FlattenedInstalls(a.filesInfo)

\* C22 (amended): as above, but with FlattenApex on only a bundle with an image
\* payload installs its individual files; a zip-only bundle installs nothing.
C22_InstallByModeOfImage ==
    Done =>
        \A t \in RequestedTypes :
            Packages(RuleOfType(t)) =>
                /\ BuiltAndSigned(t)
                /\ (installable(cfg) /\ ~cfg.FlattenApex) =>
                       /\ InList(ArchiveInstall(t), installs)
                       /\ \A k \in 1..Len(installs) : installs[k].dir = <<"apex">>
                /\ (installable(cfg) /\ cfg.FlattenApex) =>
                       /\ ~InList(ArchiveInstall(t), installs)
                       /\ installs = IF image(a.apexTypes)
                                     THEN FlattenedInstalls(a.filesInfo)
                                     ELSE <<>>

\* An installable bundle with both payloads and two files, FlattenApex on: both
\* archives are built and signed, no archive is installed, and the files and the
\* manifest are installed under apex/<name>.
C22_Witness ==
    /\ Done /\ cfg.FlattenApex /\ installable(cfg)
    /\ a.apexTypes = both
    /\ Packages("apexRule")
    /\ BuiltAndSigned(imageApex) /\ BuiltAndSigned(zipApex)
    /\ Len(installs) = 3
    /\ \A k \in 1..Len(installs) :
          SubSeq(installs[k].dir, 1, 2) = <<"apex", ApexName>>

\* ---------------------------------------------------------------------
\* Claims about install directories (GenSpec).
\* ---------------------------------------------------------------------
\* C24: no entry of the final file list has an installDir with a ".." component.
C24_NoParentComponent ==
    Done =>
        \A k \in 1..Len(a.filesInfo) : ~InList("..", a.filesInfo[k].installDir)

\* The entries of the collected file list that are native shared libraries.
NativeLibEntries == {k \in 1..Len(walk.filesInfo) : walk.filesInfo[k].class = nativeSharedLib}

\* The bundle handles the bionic libraries specially.
HandlesSpecialLibs == cfg.Ignore_system_library_special_case # "true"

\* The install directory the claim gives to native library module m.
ExpectedLibDir(m) ==
    <<IF m.multilib = "lib32" THEN "lib" ELSE "lib64">>
    \o m.relPath
    \o (IF m.native THEN <<>> ELSE <<m.archType>>)
    \o (IF HandlesSpecialLibs /\ m.name \in {"libc", "libm", "libdl"}
        THEN <<"bionic">> ELSE <<>>)

\* C25: the install directory of every collected native shared library is lib
\* (32-bit) or lib64 (64-bit), then the module's relative install path, then the
\* architecture name if the module is not of native class, then bionic exactly
\* when the special case is not ignored and the module is libc, libm or libdl.
C25_NativeLibDir ==
    Done /\ PayloadValid =>
        \A k \in NativeLibEntries :
            /\ walk.filesInfo[k].installDir = ExpectedLibDir(Modules[walk.filesInfo[k].module])
            /\ ~HandlesSpecialLibs => ~InList("bionic", walk.filesInfo[k].installDir)

\* A bundle that handles the special libraries collected a 64-bit libc in
\* lib64/bionic, a 32-bit libm of a non-native architecture with a relative path
\* in lib/hw/arm/bionic, and an ordinary library in lib64.
C25_Witness ==
    /\ Done /\ HandlesSpecialLibs
    /\ \E k \in NativeLibEntries :
          /\ walk.filesInfo[k].module = "libc"
          /\ walk.filesInfo[k].installDir = <<"lib64", "bionic">>
    /\ \E k \in NativeLibEntries :
          /\ walk.filesInfo[k].module = "libm_nb"
          /\ walk.filesInfo[k].installDir = <<"lib", "hw", "arm", "bionic">>
    /\ \E k \in NativeLibEntries :
          /\ walk.filesInfo[k].module = "libbar"
          /\ walk.filesInfo[k].installDir = <<"lib64">>

\* A bundle that ignores the special case collected libc in lib64.
C25_WitnessIgnored ==
    /\ Done /\ ~HandlesSpecialLibs
    /\ \E k \in NativeLibEntries :
          /\ walk.filesInfo[k].module = "libc"
          /\ walk.filesInfo[k].installDir = <<"lib64">>

\* ---------------------------------------------------------------------
\* Claims about the registration of module types (RegSpec).
\* ---------------------------------------------------------------------
\* No name occurs twice in the global list of module types.
NoDuplicateTypes ==
    \A i, j \in 1..Len(moduleTypes) : moduleTypes[i].name = moduleTypes[j].name => i = j

\* Every registration so far was made through the init registration context.
OnlyThroughContext == \A k \in 1..Len(regCalls) : regCalls[k][1] = "ctx"

\* C26 as stated: after any sequence of registrations no name is recorded twice
\* in the global list, and ModuleTypeFactories has one factory per entry.
C26_NoDuplicateTypes ==
    /\ NoDuplicateTypes
    /\ Cardinality(DOMAIN ModuleTypeFactories) = Len(moduleTypes)

\* C26 (amended): after any sequence of registrations made through the init
\* registration context alone no name is recorded twice in the global list, and
\* a registration through the context that panics changes neither the context's
\* map nor the global list.
C26_UniqueThroughContext ==
    /\ [](OnlyThroughContext =>
             /\ NoDuplicateTypes
             /\ DOMAIN ctxModuleTypes = DOMAIN ModuleTypeFactories
             /\ \A n \in DOMAIN ctxModuleTypes : ctxModuleTypes[n] = ModuleTypeFactories[n])
    /\ [][/\ (regPanic = "" /\ regPanic' # "") =>
                 /\ regCalls'[Len(regCalls')][1] = "ctx"
                 /\ regPanic' \in DOMAIN ctxModuleTypes
                 /\ UNCHANGED <<moduleTypes, ctxModuleTypes>>
          /\ (regCalls' # regCalls /\ regCalls'[Len(regCalls')] \in {"ctx"} \X DOMAIN ctxModuleTypes)
                 => regPanic' # ""]_vars

\* The context registered two names and then panicked on a second registration
\* of the first one: the global list still has the two entries.
C26_Witness ==
    /\ OnlyThroughContext
    /\ Len(regCalls) = 3
    /\ regPanic = "apex"
    /\ Len(moduleTypes) = 2
    /\ DOMAIN ctxModuleTypes = {"apex", "apex_test"}

\* ---- C27 ----

\* The text suffix() and name() give on a value that is neither imageApex nor
\* zipApex stands for their panic.
Panicked(text) == text = "<panic>"

\* No build statement of the generation was made with a panicking suffix() or
\* name(): its description is the name of a single payload type and none of
\* its files carries the suffix of the panic.
BuildsWithoutPanic ==
    \A i \in 1..Len(builds) :
        /\ "description" \in DOMAIN builds[i].args => ~Panicked(builds[i].args.description)
        /\ builds[i].output.rank # 509
        /\ builds[i].input.rank # 509

\* No Make module was written with a panicking suffix().
MakeWithoutPanic ==
    \A i \in 1..Len(makeData) :
        \A j \in 1..Len(makeData[i].LOCAL_MODULE_STEM) :
            ~Panicked(makeData[i].LOCAL_MODULE_STEM[j])

\* C27: in every execution of the generation of the build actions and of the
\* emission of the Make description, suffix() and name() are invoked only on
\* imageApex or zipApex and never on `both`: no build statement, installed
\* file or Make module carries the result of their panic branch, for each of
\* the three payload types.
C27_NoPanic ==
    /\ a.apexTypes \in {imageApex, zipApex, both}
    /\ BuildsWithoutPanic
    /\ MakeWithoutPanic
    /\ \A i \in 1..Len(installs) : installs[i].file.rank # 509
    /\ \A t \in DOMAIN a.outputFiles :
           t \in {imageApex, zipApex} /\ a.outputFiles[t].rank # 509

\* A bundle of both payload types was generated and written to Make: name()
\* described the two archive statements as "zip" and "image", and suffix()
\* gave the stems of the two prebuilts.
C27_Witness ==
    /\ genPc = "mk"
    /\ a.apexTypes = both
    /\ {"zip", "image"} \subseteq
           {builds[i].args.description :
               i \in {k \in 1..Len(builds) : "description" \in DOMAIN builds[k].args}}
    /\ \E i, j \in 1..Len(makeData) :
           /\ makeData[i].LOCAL_MODULE_STEM = <<ApexName, ".apex">>
           /\ makeData[j].LOCAL_MODULE_STEM = <<ApexName, ".zip", ".zipapex">>

====
